---- MODULE Spec2Model ----
(***************************************************************************)
(* GoVid: jobs, the job store and its per-job files, the orchestrators of  *)
(* the HTTP and MCP front-ends, and the FFmpeg executor with its           *)
(* semaphore.                                                              *)
(*                                                                         *)
(* Spec       one process lifetime: submissions, job tasks, store deletes  *)
(* SpecGate   callers of the executor's methods, racing for the semaphore  *)
(* SpecSubmit the submission handlers, with the last request recorded      *)
(* SpecCrash  Spec plus process crashes (also inside os.WriteFile) and     *)
(*            restarts                                                     *)
(* SpecDisk      Spec plus writes of the job files that return an error   *)
(* SpecRoundTrip the persistence alone: jobs saved and reloaded            *)
(* SpecDeadline  Spec plus the deadlines of the jobs' contexts             *)
(* SpecPair      jobs of processJobCommon, one more than there are slots   *)
(* SpecLive      SpecPair with fair scheduling of the goroutines           *)
(* SpecSweep     one run of the retention sweeper on the directories       *)
(* SpecResweep   the sweeper run again, and interrupted by a crash           *)
(* SpecSched     the scheduler: Start, the ticker, the loop, Stop          *)
(* SpecShutdown  main from the shutdown signal to its return               *)
(* SpecWebhook   Spec plus the goroutines that deliver the notifications   *)
(* SpecBuild     the builders of the engine's arguments, on their inputs   *)
(* SpecComplete  CompleteProcess stage by stage, on its requests           *)
(* SpecHTTP      the routes and the middleware in front of the handlers    *)
(* SpecDownload  DownloadVideosInOrder with its goroutines                 *)
(* SpecLocks     the mutexes of the store, the persistence and a job       *)
(* SpecLocksFair SpecLocks with every goroutine scheduled fairly           *)
(***************************************************************************)
EXTENDS Integers, Sequences, FiniteSets, TLC

\* Jobs submitted in one run of Spec, SpecSubmit and SpecCrash.
MaxJobs == 1
\* Concurrent callers of the executor in SpecGate.
MaxCallers == 2
\* cfg.MaxConcurrentJobs, the capacity the semaphore is created with.
MaxConcurrentJobs == 1
\* Largest number of segments / videos a request of SpecSubmit carries.
MaxSegments == 2

VARIABLES
    nextId,   \* ids handed out so far + 1 (uuid.New: every id is fresh)
    req,      \* id -> what the task was started with (front-end, request type)
    job,      \* id -> the models.Job object
    store,    \* keys of JobStore.jobs
    disk,     \* id -> content of <jobsDir>/<id>.json, for the files that exist
    task,     \* id -> position of the goroutine working on the job
    sem,      \* semaphore.Weighted: slots held
    running,  \* external engine processes alive
    hooks,    \* id -> the job's webhook deliveries: started, attempted, failed
    lastReq,  \* SpecSubmit: the last submission and its response
    up,       \* the process is running
    crash,    \* SpecCrash: the write that the last crash interrupted
    saveErr,  \* ids of the jobs whose last SaveJob returned (and logged) an error
    fs        \* SpecSweep: the directories the sweeper works on;
              \* SpecLocks: the mutexes and the goroutines that take them

vars ==
    <<nextId, req, job, store, disk, task, sem, running, hooks, lastReq, up, crash,
      saveErr, fs>>

----------------------------------------------------------------------------
\* models: Job and its mutators

JobStatusPending == "pending"
JobStatusProcessing == "processing"
JobStatusCompleted == "completed"
JobStatusFailed == "failed"

NewJob(id) ==
    [ID |-> id, Status |-> JobStatusPending, Progress |-> 0, OutputPath |-> "",
     S3URL |-> "", WebhookURL |-> "", Error |-> ""]

UpdateStatus(j, status) == [j EXCEPT !.Status = status]

UpdateProgress(j, progress) == [j EXCEPT !.Progress = progress]

SetOutput(j, path) == [j EXCEPT !.OutputPath = path]

SetS3URLIgnored(j, url) == j

SetS3URL(j, url) == [j EXCEPT !.S3URL = url]

SetErrorKeepsStatus(j, err) == [j EXCEPT !.Error = err]

SetError(j, err) == [j EXCEPT !.Error = err, !.Status = JobStatusFailed]

GetStatus(j) ==
    [JobID |-> j.ID, Status |-> j.Status, Progress |-> j.Progress,
     OutputPath |-> j.OutputPath, S3URL |-> j.S3URL, Error |-> j.Error]

----------------------------------------------------------------------------
\* models: JobPersistence.  A file is the sequence of the JSON document's
\* members followed by the closing brace; a file cut short is a proper prefix.

jobData(status) ==
    [id |-> status.JobID, status |-> status.Status, progress |-> status.Progress,
     output_path |-> status.OutputPath, error |-> status.Error]

\* Texts are strings of characters; InvalidByte stands for a byte that is
\* not part of a valid UTF-8 sequence (ffmpeg's stderr is copied into the
\* error byte for byte), ReplacementChar for U+FFFD.
InvalidByte == "#"

ReplacementChar == "?"

RECURSIVE ToValidUTF8From(_, _)
\* The characters of s from the k-th on, every invalid byte replaced.
ToValidUTF8From(s, k) ==
    IF k > Len(s) THEN ""
    ELSE (IF SubSeq(s, k, k) = InvalidByte THEN ReplacementChar ELSE SubSeq(s, k, k))
            \o ToValidUTF8From(s, k + 1)

\* encoding/json writes a string coerced to valid UTF-8: every invalid byte
\* becomes U+FFFD.
ToValidUTF8(s) == ToValidUTF8From(s, 1)

Marshal(data) ==
    << <<"id", data.id>>, <<"status", ToValidUTF8(data.status)>>,
       <<"progress", data.progress>>,
       <<"output_path", ToValidUTF8(data.output_path)>>,
       <<"error", ToValidUTF8(data.error)>>, <<"}">> >>

WellFormed(content) == Len(content) = 6

Unmarshal(content) ==
    [id |-> content[1][2], status |-> content[2][2], progress |-> content[3][2],
     output_path |-> content[4][2], error |-> content[5][2]]

WriteFileDeferred(d, id, content) == d

WriteFile(d, id, content) ==
    [f \in DOMAIN d \cup {id} |-> IF f = id THEN content ELSE d[f]]

\* What os.WriteFile(path, content) can leave behind when the process dies
\* inside it: the file is opened with O_TRUNC and then written, so any prefix
\* of content, the empty one and the whole included.
Interrupted(content) == {SubSeq(content, 1, k) : k \in 0..Len(content)}

SaveJob(d, j) == WriteFile(d, GetStatus(j).JobID, Marshal(jobData(GetStatus(j))))

Reconstruct(data) ==
    [NewJob(data.id) EXCEPT !.Status = data.status, !.Progress = data.progress,
                            !.OutputPath = data.output_path, !.Error = data.error]

LoadAllJobs(d) ==
    LET ok == {f \in DOMAIN d : WellFormed(d[f])}
        ids == {Unmarshal(d[f]).id : f \in ok}
    IN  [id \in ids |->
            Reconstruct(Unmarshal(d[CHOOSE f \in ok : Unmarshal(d[f]).id = id]))]

\* LoadJob reads one file; the caller gets an error when it does not parse.
LoadJob(d, id) == Reconstruct(Unmarshal(d[id]))

DeleteJob(d, id) == [f \in DOMAIN d \ {id} |-> d[f]]

----------------------------------------------------------------------------
\* The orchestrators, as the sequences of operations their goroutines perform.
\* Every operation is one critical section (a Job mutator, a store call) or
\* one call of a collaborator.

Op(name, n, s) == [op |-> name, n |-> n, s |-> s]

OutputPathOf(id) == "outputs/" \o ToString(id) \o ".mp4"

S3URLOf(id) == "s3/" \o ToString(id) \o ".mp4"

\* processFn of processMergeJob, processOverlayJob, processAudioJob and
\* processCompleteJob (the same closures in the MCP server).
ProcessFn(type) ==
    CASE type = "merge" -> "MergeVideos"
      [] type = "overlay" -> "AddImageOverlay"
      [] type = "audio" -> "AddBackgroundMusic"
      [] type = "complete" -> "CompleteProcess"

processJobCommonCompletesEarly(type) ==
    << Op("UpdateStatus", 0, JobStatusProcessing), Op("UpdateProgress", 10, ""),
       Op("Update", 0, ""),
       Op("UpdateProgress", 30, ""), Op("Update", 0, ""),
       Op("UpdateStatus", 0, JobStatusCompleted),
       Op(ProcessFn(type), 0, ""),
       Op("UpdateProgress", 100, ""), Op("SetOutput", 0, "outputPath"),
       Op("Update", 0, "") >>

processJobCommon(type) ==
    << Op("UpdateStatus", 0, JobStatusProcessing), Op("UpdateProgress", 10, ""),
       Op("Update", 0, ""),
       Op("UpdateProgress", 30, ""), Op("Update", 0, ""),
       Op(ProcessFn(type), 0, ""),
       Op("UpdateProgress", 100, ""), Op("SetOutput", 0, "outputPath"),
       Op("UpdateStatus", 0, JobStatusCompleted), Op("Update", 0, "") >>

mcpProcessJobCommon(type) ==
    << Op("UpdateStatus", 0, JobStatusProcessing), Op("UpdateProgress", 10, ""),
       Op("UpdateProgress", 30, ""),
       Op(ProcessFn(type), 0, ""),
       Op("UpdateProgress", 100, ""), Op("SetOutput", 0, "outputPath"),
       Op("UpdateStatus", 0, JobStatusCompleted) >>

processCombineJobCommonNotifiesFirst ==
    << Op("UpdateProgress", 60, ""), Op("Update", 0, ""),
       Op("MergeVideosSimple", 0, "Failed to merge videos"),
       Op("UpdateProgress", 80, ""), Op("SetOutput", 0, "outputPath"),
       Op("Update", 0, ""),
       Op("Upload", 0, "Failed to upload to S3"),
       Op("SetS3URL", 0, ""), Op("UpdateProgress", 90, ""), Op("Update", 0, ""),
       Op("Remove", 0, ""),
       Op("sendWebhookIfConfigured", 0, ""),
       Op("UpdateProgress", 100, ""), Op("UpdateStatus", 0, JobStatusCompleted),
       Op("Update", 0, "") >>

processCombineJobCommon ==
    << Op("UpdateProgress", 60, ""), Op("Update", 0, ""),
       Op("MergeVideosSimple", 0, "Failed to merge videos"),
       Op("UpdateProgress", 80, ""), Op("SetOutput", 0, "outputPath"),
       Op("Update", 0, ""),
       Op("Upload", 0, "Failed to upload to S3"),
       Op("SetS3URL", 0, ""), Op("UpdateProgress", 90, ""), Op("Update", 0, ""),
       Op("Remove", 0, ""),
       Op("UpdateProgress", 100, ""), Op("UpdateStatus", 0, JobStatusCompleted),
       Op("Update", 0, ""),
       Op("sendWebhookIfConfigured", 0, "") >>

processCombineJobFromURLs ==
    << Op("UpdateStatus", 0, JobStatusProcessing), Op("UpdateProgress", 10, ""),
       Op("Update", 0, ""),
       Op("UpdateProgress", 20, ""), Op("Update", 0, ""),
       Op("DownloadVideosInOrder", 0, "Failed to download videos"),
       Op("UpdateProgress", 40, ""), Op("Update", 0, "") >>
    \o processCombineJobCommon

processCombineJobFromFiles ==
    << Op("UpdateStatus", 0, JobStatusProcessing), Op("UpdateProgress", 10, ""),
       Op("Update", 0, ""),
       Op("UpdateProgress", 40, ""), Op("Update", 0, "") >>
    \o processCombineJobCommon

\* What a task runs: r.fe is the front-end ("http", "mcp"), or "call" for a
\* bare call of the executor method r.type (SpecGate).
Program(r) ==
    CASE r.fe = "call" -> << Op(r.type, 0, "") >>
      [] r.fe = "mcp" -> mcpProcessJobCommon(r.type)
      [] r.fe = "http" /\ r.type = "combine" /\ r.src = "urls" -> processCombineJobFromURLs
      [] r.fe = "http" /\ r.type = "combine" /\ r.src = "files" -> processCombineJobFromFiles
      [] OTHER -> processJobCommon(r.type)

OnErrorResetsProgress(r) ==
    CASE r.fe = "call" -> << >>
      [] r.fe = "mcp" -> << Op("UpdateProgress", 0, ""), Op("SetError", 0, "") >>
      [] r.fe = "http" /\ r.type = "combine" ->
            << Op("UpdateProgress", 0, ""), Op("SetError", 0, ""), Op("Update", 0, ""),
               Op("sendWebhookIfConfigured", 0, "") >>
      [] OTHER -> << Op("UpdateProgress", 0, ""), Op("SetError", 0, ""),
                     Op("Update", 0, "") >>

\* The error branch of the orchestrator the task runs.
OnError(r) ==
    CASE r.fe = "call" -> << >>
      [] r.fe = "mcp" -> << Op("SetError", 0, "") >>
      [] r.fe = "http" /\ r.type = "combine" ->
            << Op("SetError", 0, ""), Op("Update", 0, ""),
               Op("sendWebhookIfConfigured", 0, "") >>
      [] OTHER -> << Op("SetError", 0, ""), Op("Update", 0, "") >>

\* A task: mode "main" (in Program), "fail" (in OnError) or "done"; i is the
\* index of the operation it performs next.  Inside an executor method: fn is
\* the method that runs, stage the stage of CompleteProcess (0 outside it),
\* ex is "" (entered), "wait" (in sem.Acquire), "run" (in cmd.Run, slot held)
\* or "direct" (in ffmpeg-go's Run).  err is the error being reported.  late
\* says that the deadline of the job's context passed while the task was
\* waiting for a slot or an engine was running for it.
NewTask ==
    [mode |-> "main", i |-> 1, fn |-> "", stage |-> 0, ex |-> "", err |-> "",
     late |-> FALSE]

Steps(id) == IF task[id].mode = "main" THEN Program(req[id]) ELSE OnError(req[id])

CurOp(id) ==
    IF task[id].mode = "done" THEN Op("", 0, "") ELSE Steps(id)[task[id].i]

At(id, name) == id \in DOMAIN task /\ task[id].mode # "done" /\ CurOp(id).op = name

\* The task after the operation it was at returned without error.
Advance(id) ==
    IF task[id].i = Len(Steps(id))
    THEN [task[id] EXCEPT !.mode = "done", !.i = 0, !.fn = "", !.stage = 0, !.ex = ""]
    ELSE [task[id] EXCEPT !.i = @ + 1, !.fn = "", !.stage = 0, !.ex = ""]

FailSkipsOnError(id, err) ==
    [mode |-> "done", i |-> 0, fn |-> "", stage |-> 0, ex |-> "", err |-> err,
     late |-> task[id].late]

\* The task after the operation it was at returned err.
Fail(id, err) ==
    IF OnError(req[id]) = << >>
    THEN [mode |-> "done", i |-> 0, fn |-> "", stage |-> 0, ex |-> "", err |-> err,
          late |-> task[id].late]
    ELSE [mode |-> "fail", i |-> 1, fn |-> "", stage |-> 0, ex |-> "", err |-> err,
          late |-> task[id].late]

----------------------------------------------------------------------------
\* ffmpeg: the executor

\* The methods that end in e.Execute(ctx, args); the others end in ffmpeg-go's
\* output.Run(), which starts the engine itself.
CallsExecute(fn) ==
    fn \in {"MergeVideos", "MergeVideosSimple", "AddImageOverlay", "AddMultipleOverlays"}

\* The methods that begin with ValidateFile on their inputs.
Validates(fn) ==
    fn \in {"MergeVideos", "AddImageOverlay", "AddMultipleOverlays", "AddBackgroundMusic"}

ExecutorMethods ==
    {"MergeVideos", "MergeVideosSimple", "AddImageOverlay", "AddMultipleOverlays",
     "AddBackgroundMusic", "CompleteProcess"}

ValidateFileErrors == {"file path is empty", "file does not exist"}

\* CompleteProcess: the stages that can run after stage s (0: on entry).
\* Stage 1 runs if there is more than one segment, stage 2 if there are
\* overlays, stage 3 always: audio if given, else the copy.
NextStages(s) ==
    {p \in {<<1, "MergeVideos">>, <<2, "AddMultipleOverlays">>,
            <<3, "AddBackgroundMusic">>, <<3, "copy">>} : p[1] > s}

InMethod(id) ==
    /\ id \in DOMAIN task
    /\ task[id].mode # "done"
    /\ CurOp(id).op \in ExecutorMethods
    /\ CurOp(id).op = "CompleteProcess" => task[id].fn # ""

Method(id) == IF CurOp(id).op = "CompleteProcess" THEN task[id].fn ELSE CurOp(id).op

\* The error the orchestrator records when the operation it is at fails with
\* err: the combine orchestrator reports its own message.
Reported(id, err) == IF CurOp(id).s # "" THEN CurOp(id).s ELSE err

\* The tasks possible after the method the task is in returned nil.
Returned(id) ==
    IF task[id].stage \in {1, 2}
    THEN {[task[id] EXCEPT !.stage = p[1], !.fn = p[2], !.ex = ""] :
             p \in NextStages(task[id].stage)}
    ELSE {Advance(id)}

\* sem.Acquire(ctx, 1) succeeds at once iff fewer than the capacity are held.
SlotFree(held) == held < MaxConcurrentJobs

ReleasedOnAcquireError(held) == held - 1

\* The slots held after sem.Acquire returned an error: Execute returns
\* before its defer is registered.
AfterAcquireError(held) == held

ReleasedOnSuccessOnly(held, err) == IF err = "" THEN held - 1 ELSE held

\* The slots held after Execute returned err from cmd.Run: defer sem.Release(1).
AfterRun(held, err) == held - 1

UnchangedJobs == UNCHANGED <<nextId, req, job, store, disk, hooks, lastReq, up, crash, saveErr, fs>>

\* CompleteProcess reads the request and enters its first stage.
CompleteProcess(id) ==
    /\ up
    /\ At(id, "CompleteProcess")
    /\ task[id].fn = ""
    /\ \/ \E p \in NextStages(0) :
             task' = [task EXCEPT ![id] = [@ EXCEPT !.stage = p[1], !.fn = p[2]]]
       \/ /\ req[id].fe = "call"
          /\ task' = [task EXCEPT ![id] = Fail(id, "at least one video segment required")]
    /\ UNCHANGED <<sem, running>>
    /\ UnchangedJobs

\* ValidateFile fails on one of the method's inputs.
ValidateFileFails(id) ==
    /\ up
    /\ InMethod(id)
    /\ task[id].ex = ""
    /\ Validates(Method(id))
    /\ \E err \in ValidateFileErrors :
          task' = [task EXCEPT ![id] = Fail(id, Reported(id, err))]
    /\ UNCHANGED <<sem, running>>
    /\ UnchangedJobs

\* The method built its arguments and calls Execute, which calls sem.Acquire.
Execute(id) ==
    /\ up
    /\ InMethod(id)
    /\ task[id].ex = ""
    /\ CallsExecute(Method(id))
    /\ task' = [task EXCEPT ![id] = [@ EXCEPT !.ex = "wait"]]
    /\ UNCHANGED <<sem, running>>
    /\ UnchangedJobs

\* sem.Acquire returns nil; Execute starts the engine and waits in cmd.Run.
ExecuteAcquires(id) ==
    /\ up
    /\ InMethod(id)
    /\ task[id].ex = "wait"
    /\ SlotFree(sem)
    /\ sem' = sem + 1
    /\ running' = running + 1
    /\ task' = [task EXCEPT ![id] = [@ EXCEPT !.ex = "run"]]
    /\ UnchangedJobs

\* ctx is done while the task is in sem.Acquire: Execute returns the error.
ExecuteAcquireFails(id) ==
    /\ up
    /\ InMethod(id)
    /\ task[id].ex = "wait"
    /\ sem' = AfterAcquireError(sem)
    /\ task' = [task EXCEPT ![id] =
                   Fail(id, Reported(id, "failed to acquire ffmpeg slot"))]
    /\ UNCHANGED running
    /\ UnchangedJobs

\* cmd.Run returns: the engine exited by itself (err = "") or with an error
\* (non-zero exit, or killed when cmdCtx expired); Execute returns.  cmdCtx
\* derives from the job's context, so past the deadline the engine is killed
\* and cmd.Run returns the error.
ExecuteReturns(id) ==
    /\ up
    /\ InMethod(id)
    /\ task[id].ex = "run"
    /\ running' = running - 1
    /\ \E err \in {"", "ffmpeg execution failed"} :
          /\ task[id].late => err # ""
          /\ sem' = AfterRun(sem, err)
          /\ IF err = ""
             THEN \E t \in Returned(id) : task' = [task EXCEPT ![id] = t]
             ELSE task' = [task EXCEPT ![id] = Fail(id, Reported(id, err))]
    /\ UnchangedJobs

\* ffmpeg-go's output.Run(): the engine is started by the library, with no
\* context and without Execute.
Run(id) ==
    /\ up
    /\ InMethod(id)
    /\ task[id].ex = ""
    /\ ~CallsExecute(Method(id))
    /\ running' = running + 1
    /\ task' = [task EXCEPT ![id] = [@ EXCEPT !.ex = "direct"]]
    /\ UNCHANGED sem
    /\ UnchangedJobs

\* The deadline of the job's context (context.WithTimeout in the
\* orchestrator) passes while the task waits in sem.Acquire or an engine runs
\* for it.
DeadlineExpires(id) ==
    /\ up
    /\ InMethod(id)
    /\ task[id].ex \in {"wait", "run", "direct"}
    /\ ~task[id].late
    /\ task' = [task EXCEPT ![id] = [@ EXCEPT !.late = TRUE]]
    /\ UNCHANGED <<sem, running>>
    /\ UnchangedJobs

\* output.Run() returns when the engine exits.
RunReturns(id) ==
    /\ up
    /\ InMethod(id)
    /\ task[id].ex = "direct"
    /\ running' = running - 1
    /\ \E err \in {"", "exit status 1"} :
          IF err = ""
          THEN \E t \in Returned(id) : task' = [task EXCEPT ![id] = t]
          ELSE task' = [task EXCEPT ![id] = Fail(id, Reported(id, err))]
    /\ UNCHANGED sem
    /\ UnchangedJobs

----------------------------------------------------------------------------
\* models: JobStore

JobStoreAddSavesOnly(st, d, j) == <<st, SaveJob(d, j)>>

\* JobStore.Add: the map entry, then persistence.SaveJob (its error dropped).
JobStoreAdd(st, d, j) == <<st \cup {j.ID}, SaveJob(d, j)>>

\* JobStore.Update: the same two steps.
JobStoreUpdate(st, d, j) == <<st \cup {j.ID}, SaveJob(d, j)>>

JobStoreDeleteMapOnly(st, d, id) == <<st \ {id}, d>>

\* JobStore.Delete: the map entry, then persistence.DeleteJob.
JobStoreDelete(st, d, id) == <<st \ {id}, DeleteJob(d, id)>>

----------------------------------------------------------------------------
\* api, mcp: the submission handlers

Types == {"merge", "overlay", "audio", "complete", "combine"}

\* A request: front-end, type, for combine the body kind (JSON urls or
\* multipart files) and the webhook URL, n the number of segments / videos,
\* body whether the body (the tool's arguments) parses, path the video path
\* of an overlay or audio request ("absent": the field is not there).
Requests ==
    {r \in [fe : {"http", "mcp"}, type : Types, src : {"", "urls", "files"},
            webhook : {"", "hook"}, n : 0..MaxSegments, body : BOOLEAN,
            path : {"absent", "", "a.mp4"}] :
        /\ r.type = "combine" => r.fe = "http" /\ r.src # ""
        /\ r.type # "combine" => r.src = "" /\ r.webhook = ""
        /\ r.type \in {"overlay", "audio"} => r.n = 0
        /\ r.type \notin {"overlay", "audio"} => r.path = "a.mp4"}

MinSegmentsMergeOne(type) ==
    CASE type = "merge" -> 1
      [] type = "complete" -> 1
      [] type = "combine" -> 2
      [] OTHER -> 0

\* The len(...) < k checks of MergeVideos, ProcessComplete, the combine
\* handlers and their MCP counterparts.
MinSegments(type) ==
    CASE type = "merge" -> 2
      [] type = "complete" -> 1
      [] type = "combine" -> 2
      [] OTHER -> 0

\* The handler's checks before it creates the job.  The HTTP body parser
\* fills an absent string with ""; the MCP tool asserts that video_path is a
\* string.  No handler looks at the content of a path.
Accepts(r) ==
    /\ r.body
    /\ r.n >= MinSegments(r.type)
    /\ r.fe = "mcp" /\ r.type \in {"overlay", "audio"} => r.path # "absent"

NoRequest == [r |-> [type |-> ""], result |-> "", id |-> 0]

NoCrash == [id |-> 0, had |-> FALSE, prev |-> << >>, next |-> << >>]

\* The directories the sweeper works on, before anything is in them: the
\* configured jobs directory, the entries of the outputs, uploads and temp
\* directories, the modification times of the job files, the directories that
\* cannot be read and the files that cannot be removed, and the sweeper's
\* counters.
\* With them, what main and the scheduler keep: the scheduler's goroutines
\* and channels, whether main has received the shutdown signal, and whether
\* the grace period ran out.
NoFiles ==
    [jobsDir |-> "./jobs", files |-> {}, jobs |-> << >>, unreadable |-> {},
     undeletable |-> {}, runs |-> 0, filesDeleted |-> 0, jobsDeleted |-> 0,
     crashes |-> 0, started |-> FALSE, closed |-> FALSE, immediate |-> "none",
     loop |-> "none", tick |-> FALSE, ticks |-> 0, quit |-> FALSE,
     grace |-> "running"]

\* No delivery yet: none started by SendJobCompleteAsync, no POST attempted
\* by its goroutine, none failed.
NoHooks == [started |-> 0, attempts |-> 0, failed |-> 0]

\* createAndStartJob / createJobResponse, and for combine the webhook URL
\* with its Update; then the goroutine is started.
createAndStartJob(r) ==
    LET j0 == NewJob(nextId)
        added == JobStoreAdd(store, disk, j0)
        j1 == IF r.webhook # "" THEN [j0 EXCEPT !.WebhookURL = r.webhook] ELSE j0
        updated == IF r.webhook # ""
                   THEN JobStoreUpdate(added[1], added[2], j1)
                   ELSE added
    IN  /\ nextId' = nextId + 1
        /\ job' = job @@ (nextId :> j1)
        /\ store' = updated[1]
        /\ disk' = updated[2]
        /\ req' = req @@ (nextId :> [fe |-> r.fe, type |-> r.type, src |-> r.src])
        /\ task' = task @@ (nextId :> NewTask)
        /\ hooks' = hooks @@ (nextId :> NoHooks)

\* A submission handler: its checks, then the job and the response.
HandleRequest(r, log) ==
    /\ up
    /\ IF Accepts(r)
       THEN     /\ createAndStartJob(r)
                /\ lastReq' = IF log THEN [r |-> r, result |-> "accepted", id |-> nextId]
                              ELSE lastReq
       ELSE /\ log
            /\ lastReq' = [r |-> r, result |-> "rejected", id |-> 0]
            /\ UNCHANGED <<nextId, req, job, store, disk, task, hooks>>
    /\ UNCHANGED <<sem, running, up, crash, saveErr, fs>>

\* GetJobStatus: JobStore.Get, then 404 or 200 with the job's GetStatus.
StatusNotFound == 404

StatusOK == 200

GetJobStatus(st, jobs, id) ==
    IF id \notin st
    THEN [code |-> StatusNotFound, body |-> [Error |-> "Job not found"]]
    ELSE [code |-> StatusOK, body |-> GetStatus(jobs[id])]

----------------------------------------------------------------------------
\* api, mcp: the steps of the job goroutines

UnchangedExecutor == UNCHANGED <<sem, running>>

Step(id) == task' = [task EXCEPT ![id] = Advance(id)]

JobUpdateStatus(id) ==
    /\ up /\ At(id, "UpdateStatus")
    /\ job' = [job EXCEPT ![id] = UpdateStatus(@, CurOp(id).s)]
    /\ Step(id)
    /\ UnchangedExecutor
    /\ UNCHANGED <<nextId, req, store, disk, hooks, lastReq, up, crash, saveErr, fs>>

JobUpdateProgress(id) ==
    /\ up /\ At(id, "UpdateProgress")
    /\ job' = [job EXCEPT ![id] = UpdateProgress(@, CurOp(id).n)]
    /\ Step(id)
    /\ UnchangedExecutor
    /\ UNCHANGED <<nextId, req, store, disk, hooks, lastReq, up, crash, saveErr, fs>>

JobSetOutput(id) ==
    /\ up /\ At(id, "SetOutput")
    /\ job' = [job EXCEPT ![id] = SetOutput(@, OutputPathOf(id))]
    /\ Step(id)
    /\ UnchangedExecutor
    /\ UNCHANGED <<nextId, req, store, disk, hooks, lastReq, up, crash, saveErr, fs>>

JobSetS3URL(id) ==
    /\ up /\ At(id, "SetS3URL")
    /\ job' = [job EXCEPT ![id] = SetS3URL(@, S3URLOf(id))]
    /\ Step(id)
    /\ UnchangedExecutor
    /\ UNCHANGED <<nextId, req, store, disk, hooks, lastReq, up, crash, saveErr, fs>>

JobSetError(id) ==
    /\ up /\ At(id, "SetError")
    /\ job' = [job EXCEPT ![id] = SetError(@, task[id].err)]
    /\ Step(id)
    /\ UnchangedExecutor
    /\ UNCHANGED <<nextId, req, store, disk, hooks, lastReq, up, crash, saveErr, fs>>

\* h.jobStore.Update(job)
StoreUpdate(id) ==
    /\ up /\ At(id, "Update")
    /\ store' = JobStoreUpdate(store, disk, job[id])[1]
    /\ disk' = JobStoreUpdate(store, disk, job[id])[2]
    /\ saveErr' = saveErr \ {id}
    /\ Step(id)
    /\ UnchangedExecutor
    /\ UNCHANGED <<nextId, req, job, hooks, lastReq, up, crash, fs>>

\* What os.WriteFile(path, content) leaves when it returns an error: the file
\* as it was (the open failed) or cut short (a write failed).
WriteFileFails(d, id, content) ==
    {d} \cup {WriteFile(d, id, c) : c \in Interrupted(content) \ {content}}

FailsJobOnSaveError(id) == Fail(id, "failed to save job")

\* The orchestrators drop the error of Update: _ = h.jobStore.Update(job).
AfterSaveError(id) == Advance(id)

\* h.jobStore.Update(job) when SaveJob returns an error: the map entry is
\* set, the error is logged and returned.
StoreUpdateFails(id) ==
    /\ up /\ At(id, "Update")
    /\ store' = store \cup {id}
    /\ disk' \in WriteFileFails(disk, id, Marshal(jobData(GetStatus(job[id]))))
    /\ saveErr' = saveErr \cup {id}
    /\ task' = [task EXCEPT ![id] = AfterSaveError(id)]
    /\ UnchangedExecutor
    /\ UNCHANGED <<nextId, req, job, hooks, lastReq, up, crash, fs>>

\* What SaveJob can do with a file: write it and return nil, or return the
\* error of os.WriteFile.  Each outcome is <<files, failed>>.
SaveJobOutcomes(d, id, content) ==
    {<<WriteFile(d, id, content), FALSE>>}
        \cup {<<x, TRUE>> : x \in WriteFileFails(d, id, content)}

\* createAndStartJob / createJobResponse when a SaveJob of the handler
\* returns an error: JobStore.Add drops it, the combine handlers drop the one
\* of the Update that stores the webhook URL, and the handler goes on.
AddFails(r) ==
    /\ up
    /\ Accepts(r)
    /\ LET j0 == NewJob(nextId)
           j1 == IF r.webhook # "" THEN [j0 EXCEPT !.WebhookURL = r.webhook] ELSE j0
       IN  /\ nextId' = nextId + 1
           /\ job' = job @@ (nextId :> j1)
           /\ store' = store \cup {nextId}
           /\ \E a \in SaveJobOutcomes(disk, nextId, Marshal(jobData(GetStatus(j0)))) :
              \E u \in IF r.webhook # ""
                       THEN SaveJobOutcomes(a[1], nextId, Marshal(jobData(GetStatus(j1))))
                       ELSE {a} :
                  /\ a[2] \/ u[2]
                  /\ disk' = u[1]
                  /\ saveErr' = IF u[2] THEN saveErr \cup {nextId} ELSE saveErr \ {nextId}
           /\ req' = req @@ (nextId :> [fe |-> r.fe, type |-> r.type, src |-> r.src])
           /\ task' = task @@ (nextId :> NewTask)
           /\ hooks' = hooks @@ (nextId :> NoHooks)
    /\ UNCHANGED <<sem, running, lastReq, up, crash, fs>>

\* h.downloader.DownloadVideosInOrder
DownloadVideosInOrder(id) ==
    /\ up /\ At(id, "DownloadVideosInOrder")
    /\ \/ Step(id)
       \/ task' = [task EXCEPT ![id] = Fail(id, Reported(id, "download failed"))]
    /\ UnchangedExecutor
    /\ UnchangedJobs

\* h.s3Uploader.Upload
Upload(id) ==
    /\ up /\ At(id, "Upload")
    /\ \/ Step(id)
       \/ task' = [task EXCEPT ![id] = Fail(id, Reported(id, "upload failed"))]
    /\ UnchangedExecutor
    /\ UnchangedJobs

\* os.Remove(outputPath); on success job.SetOutput("")
Remove(id) ==
    /\ up /\ At(id, "Remove")
    /\ \/ job' = [job EXCEPT ![id] = SetOutput(@, "")]
       \/ UNCHANGED job
    /\ Step(id)
    /\ UnchangedExecutor
    /\ UNCHANGED <<nextId, req, store, disk, hooks, lastReq, up, crash, saveErr, fs>>

sendWebhookIfConfigured(id) ==
    /\ up /\ At(id, "sendWebhookIfConfigured")
    /\ hooks' = [hooks EXCEPT ![id].started =
                    IF job[id].WebhookURL = "" THEN @ ELSE @ + 1]
    /\ Step(id)
    /\ UnchangedExecutor
    /\ UNCHANGED <<nextId, req, job, store, disk, lastReq, up, crash, saveErr, fs>>

\* The goroutine of SendJobCompleteAsync: one call of SendJobComplete, whose
\* error (no connection, a status outside 2xx, the 15 s deadline) is logged.
SendJobComplete(id) ==
    /\ up
    /\ id \in DOMAIN hooks
    /\ hooks[id].attempts < hooks[id].started
    /\ \E err \in BOOLEAN :
          hooks' = [hooks EXCEPT ![id].attempts = @ + 1,
                                 ![id].failed = IF err THEN @ + 1 ELSE @]
    /\ UNCHANGED <<nextId, req, job, store, disk, task, sem, running, lastReq, up, crash,
                   saveErr, fs>>

\* cleanup: the sweeper's s.jobStore.Delete(jobID)
cleanOldJobs(id) ==
    /\ up
    /\ id \in store
    /\ store' = JobStoreDelete(store, disk, id)[1]
    /\ disk' = JobStoreDelete(store, disk, id)[2]
    /\ UnchangedExecutor
    /\ UNCHANGED <<nextId, req, job, task, hooks, lastReq, up, crash, saveErr, fs>>

----------------------------------------------------------------------------
\* Specifications

Init ==
    /\ nextId = 1
    /\ req = << >>
    /\ job = << >>
    /\ store = {}
    /\ disk = << >>
    /\ task = << >>
    /\ sem = 0
    /\ running = 0
    /\ hooks = << >>
    /\ lastReq = NoRequest
    /\ up = TRUE
    /\ crash = NoCrash
    /\ saveErr = {}
    /\ fs = NoFiles

Ids == 1..(MaxJobs + MaxCallers)

Submit == nextId <= MaxJobs /\ \E r \in Requests : Accepts(r) /\ HandleRequest(r, FALSE)

\* The steps of the goroutine of job id outside the executor.
JobSteps(id) ==
    \/ JobUpdateStatus(id)
    \/ JobUpdateProgress(id)
    \/ JobSetOutput(id)
    \/ JobSetS3URL(id)
    \/ JobSetError(id)
    \/ StoreUpdate(id)
    \/ DownloadVideosInOrder(id)
    \/ Upload(id)
    \/ Remove(id)
    \/ sendWebhookIfConfigured(id)

JobStep == \E id \in Ids : JobSteps(id)

\* The steps of the goroutine of job id inside the executor's methods.
ExecutorSteps(id) ==
    \/ CompleteProcess(id)
    \/ ValidateFileFails(id)
    \/ Execute(id)
    \/ ExecuteAcquires(id)
    \/ ExecuteAcquireFails(id)
    \/ ExecuteReturns(id)
    \/ Run(id)
    \/ RunReturns(id)

ExecutorStep == \E id \in Ids : ExecutorSteps(id)

Sweep == \E id \in Ids : cleanOldJobs(id)

Next == Submit \/ JobStep \/ ExecutorStep \/ Sweep

Spec == Init /\ [][Next]_vars

\* The jobs with the goroutines that deliver their notifications.
NextWebhook == Next \/ \E id \in Ids : SendJobComplete(id)

SpecWebhook == Init /\ [][NextWebhook]_vars

\* A caller of one of the executor's methods, with its own context.
Call ==
    /\ up
    /\ nextId <= MaxCallers
    /\ \E fn \in ExecutorMethods :
          req' = req @@ (nextId :> [fe |-> "call", type |-> fn, src |-> ""])
    /\ task' = task @@ (nextId :> NewTask)
    /\ nextId' = nextId + 1
    /\ UNCHANGED <<job, store, disk, sem, running, hooks, lastReq, up, crash, saveErr, fs>>

NextGate == Call \/ ExecutorStep

SpecGate == Init /\ [][NextGate]_vars

Request == \E r \in Requests : (Accepts(r) => nextId <= MaxJobs) /\ HandleRequest(r, TRUE)

NextSubmit == Request

SpecSubmit == Init /\ [][NextSubmit]_vars

----------------------------------------------------------------------------
\* Crashes and restarts

\* The process is gone: only the files remain.
Down ==
    /\ up' = FALSE
    /\ job' = << >>
    /\ store' = {}
    /\ task' = << >>
    /\ req' = << >>
    /\ hooks' = << >>
    /\ sem' = 0
    /\ running' = 0
    /\ saveErr' = {}
    /\ UNCHANGED <<lastReq, fs>>

\* The process dies outside of any write.
Crash ==
    /\ up
    /\ Down
    /\ crash' = NoCrash
    /\ UNCHANGED <<nextId, disk>>

\* The process dies while a job goroutine is in JobStore.Update -> SaveJob ->
\* os.WriteFile.
CrashInUpdate(id) ==
    /\ up /\ At(id, "Update")
    /\ LET content == Marshal(jobData(GetStatus(job[id])))
       IN  /\ \E c \in Interrupted(content) : disk' = WriteFile(disk, id, c)
           /\ crash' = [id |-> id, had |-> id \in DOMAIN disk,
                        prev |-> IF id \in DOMAIN disk THEN disk[id] ELSE << >>,
                        next |-> content]
    /\ Down
    /\ UNCHANGED nextId

\* The process dies while a handler is in JobStore.Add -> SaveJob ->
\* os.WriteFile for the job it just created.
CrashInAdd ==
    /\ up /\ nextId <= MaxJobs
    /\ LET content == Marshal(jobData(GetStatus(NewJob(nextId))))
       IN  /\ \E c \in Interrupted(content) : disk' = WriteFile(disk, nextId, c)
           /\ crash' = [id |-> nextId, had |-> FALSE, prev |-> << >>, next |-> content]
    /\ nextId' = nextId + 1
    /\ Down

\* main: NewJobStoreWithPersistence loads every job file it can parse.
Restart ==
    /\ ~up
    /\ up' = TRUE
    /\ job' = LoadAllJobs(disk)
    /\ store' = DOMAIN LoadAllJobs(disk)
    /\ crash' = NoCrash
    /\ UNCHANGED <<nextId, req, disk, task, sem, running, hooks, lastReq, saveErr, fs>>

NextCrash ==
    \/ Next
    \/ Crash
    \/ \E id \in Ids : CrashInUpdate(id)
    \/ CrashInAdd
    \/ Restart

SpecCrash == Init /\ [][NextCrash]_vars

\* More jobs than slots: the jobs of the HTTP front-end's processJobCommon,
\* one more of them than the executor has slots.
PairRequests == {r \in Requests : r.fe = "http" /\ r.type # "combine"}

SubmitPair ==
    /\ nextId <= MaxConcurrentJobs + 1
    /\ \E r \in PairRequests : Accepts(r) /\ HandleRequest(r, FALSE)

\* The steps of processJobCommon outside the executor.
ProcessJobSteps(id) ==
    \/ JobUpdateStatus(id)
    \/ JobUpdateProgress(id)
    \/ JobSetOutput(id)
    \/ JobSetError(id)
    \/ StoreUpdate(id)

NextPair == SubmitPair \/ (\E id \in Ids : ProcessJobSteps(id)) \/ ExecutorStep

SpecPair == Init /\ [][NextPair]_vars

\* SpecPair with the scheduling of the goroutines: a goroutine that can take
\* a step takes one.  A step of the executor is always possible for a task
\* inside it: the engine exits or is killed at the deadline, and sem.Acquire
\* returns with the slot or, at the deadline of ctx, with the error.
Fairness == \A id \in Ids : WF_vars(ProcessJobSteps(id) \/ ExecutorSteps(id))

SpecLive == SpecPair /\ Fairness

\* Spec with the deadlines of the jobs' contexts.
NextDeadline == Next \/ \E id \in DOMAIN task : DeadlineExpires(id)

SpecDeadline == Init /\ [][NextDeadline]_vars

\* Spec with writes of the job files that fail.
NextDisk ==
    \/ Next
    \/ \E id \in DOMAIN task : StoreUpdateFails(id)
    \/ nextId <= MaxJobs /\ \E r \in Requests : AddFails(r)

SpecDisk == Init /\ [][NextDisk]_vars

\* The persistence layer alone: jobs in the states the orchestrators leave
\* them in, saved and reloaded.
Stderr == {"", "a.mp4: Invalid data found", "caf" \o InvalidByte \o ".mp4: No such file"}

\* fmt.Errorf("ffmpeg execution failed: %w (stderr: %s)", err, stderr.String())
ExecuteError(stderr) == "ffmpeg execution failed: exit status 1 (stderr: " \o stderr \o ")"

\* The jobs an orchestrator can leave behind: pending, processing at one of
\* its progress marks, completed, failed at a mark with one of the errors;
\* the combine jobs also with an upload URL or a webhook URL.
JobsOf(id) ==
    LET pending == NewJob(id)
        processing == {UpdateProgress(UpdateStatus(pending, JobStatusProcessing), p) :
                          p \in {10, 30, 60, 80}}
        completed == UpdateStatus(SetOutput(UpdateProgress(pending, 100),
                                            OutputPathOf(id)), JobStatusCompleted)
        errors == {"file path is empty"} \cup {ExecuteError(x) : x \in Stderr}
        failed == {SetError(j, e) : j \in processing, e \in errors}
        plain == {pending, completed} \cup processing \cup failed
    IN  plain \cup {SetS3URL(completed, S3URLOf(id))}
              \cup {[j EXCEPT !.WebhookURL = "hook"] : j \in plain}

InitRoundTrip ==
    /\ nextId = MaxJobs + 1
    /\ job \in {f \in [1..MaxJobs -> UNION {JobsOf(id) : id \in 1..MaxJobs}] :
                    \A id \in 1..MaxJobs : f[id] \in JobsOf(id)}
    /\ store = 1..MaxJobs
    /\ disk \in {<< >>, [id \in 1..MaxJobs |-> Marshal(jobData(GetStatus(NewJob(id))))]}
    /\ req = << >>
    /\ task = << >>
    /\ sem = 0
    /\ running = 0
    /\ hooks = << >>
    /\ lastReq = NoRequest
    /\ up = TRUE
    /\ crash = NoCrash
    /\ saveErr = {}
    /\ fs = NoFiles

\* JobStore.Update of a job as it is.
Save(id) ==
    /\ up /\ id \in DOMAIN job
    /\ store' = JobStoreUpdate(store, disk, job[id])[1]
    /\ disk' = JobStoreUpdate(store, disk, job[id])[2]
    /\ UNCHANGED <<nextId, req, job, task, sem, running, hooks, lastReq, up, crash,
                   saveErr, fs>>

\* The process is stopped and started again: NewJobStoreWithPersistence.
Reload ==
    /\ up
    /\ job' = LoadAllJobs(disk)
    /\ store' = DOMAIN LoadAllJobs(disk)
    /\ UNCHANGED <<nextId, req, disk, task, sem, running, hooks, lastReq, up, crash,
                   saveErr, fs>>

NextRoundTrip == (\E id \in 1..MaxJobs : Save(id)) \/ Reload

SpecRoundTrip == InitRoundTrip /\ [][NextRoundTrip]_vars


----------------------------------------------------------------------------
\* cleanup: the retention sweeper on the file system
\* Modification times are relative to the cutoff of the run.
Cutoff == 0

MaxEntries == 3

ManagedDirs == {"outputs", "uploads", "temp"}

\* JOBS_DIR: the default and the same directory written with a trailing slash.
JobsDirs == {"./jobs", "./jobs/"}

RECURSIVE LastSlash(_, _)
\* The position of the last "/" of p at or before k, 0 if there is none.
LastSlash(p, k) ==
    IF k = 0 THEN 0 ELSE IF SubSeq(p, k, k) = "/" THEN k ELSE LastSlash(p, k - 1)

\* filepath.Clean for relative paths of the form ./a/b: the leading "./" and a
\* trailing "/" are dropped, the empty path is ".".
Clean(p) ==
    LET q == IF Len(p) > 1 /\ SubSeq(p, Len(p), Len(p)) = "/"
             THEN SubSeq(p, 1, Len(p) - 1) ELSE p
        r == IF Len(q) >= 2 /\ SubSeq(q, 1, 2) = "./" THEN SubSeq(q, 3, Len(q)) ELSE q
    IN  IF r = "" THEN "." ELSE r

\* filepath.Dir: all but the last element of the path, cleaned.
Dir(p) == Clean(SubSeq(p, 1, LastSlash(p, Len(p))))

\* JobPersistence.GetJobsDir: the directory the persistence was created with.
GetJobsDir == fs.jobsDir

\* info.ModTime().Before(cutoffTime)
Before(mtime, cutoff) == mtime < cutoff

\* The contents a managed directory can have: at most MaxEntries entries in
\* all, each a file or a subdirectory, older than the cutoff or not.
Contents ==
    UNION {{ {[dir |-> d, name |-> "a", isDir |-> f[d][1], mtime |-> f[d][2]] : d \in ds} :
               f \in [ds -> BOOLEAN \X {Cutoff - 1, Cutoff}] } :
             ds \in {x \in SUBSET ManagedDirs : Cardinality(x) <= MaxEntries}}

cleanDirectoryAtCutoff(files, dir, cutoff) ==
    IF dir \in fs.unreadable THEN {}
    ELSE {e \in files : /\ e.dir = dir
                        /\ ~e.isDir
                        /\ e.mtime <= cutoff
                        /\ e \notin fs.undeletable}

\* The entries cleanDirectory removes from its directory: nothing if the
\* directory cannot be read; else the entries that are not directories, are
\* older than the cutoff and whose os.Remove succeeds.
cleanDirectory(files, dir, cutoff) ==
    IF dir \in fs.unreadable THEN {}
    ELSE {e \in files : /\ e.dir = dir
                        /\ ~e.isDir
                        /\ Before(e.mtime, cutoff)
                        /\ e \notin fs.undeletable}

\* The ids cleanOldJobs hands to JobStore.Delete: the .json files older than
\* the cutoff in the directory it scans, filepath.Dir(GetJobsDir()).  The job
\* files are in Clean(jobsDir); the parent holds the directories only.
ScannedJobFiles ==
    IF Dir(GetJobsDir) = Clean(fs.jobsDir) THEN DOMAIN fs.jobs ELSE {}

OldJobs(cutoff) == {id \in ScannedJobFiles : Before(fs.jobs[id], cutoff)}

RECURSIVE DeleteAll(_, _)
\* JobStore.Delete for every id of ids: <<store, disk>> afterwards.
DeleteAll(sd, ids) ==
    IF ids = {} THEN sd
    ELSE LET id == CHOOSE x \in ids : TRUE
         IN  DeleteAll(JobStoreDelete(sd[1], sd[2], id), ids \ {id})

\* What runCleanup leaves: the three directories are cleaned, then the job
\* records; <<fs, store, disk>> afterwards.
Swept ==
    LET removed == UNION {cleanDirectory(fs.files, d, Cutoff) : d \in ManagedDirs}
        old == OldJobs(Cutoff)
        sd == DeleteAll(<<store, disk>>, old)
    IN  <<[fs EXCEPT !.files = @ \ removed,
                     !.jobs = [id \in DOMAIN @ \ old |-> @[id]],
                     !.runs = @ + 1,
                     !.filesDeleted = Cardinality(removed),
                     !.jobsDeleted = Cardinality(old)],
          sd[1], sd[2]>>

Cleanup ==
    /\ fs' = Swept[1]
    /\ store' = Swept[2]
    /\ disk' = Swept[3]

\* Start: the sweep that runs immediately.
runCleanup ==
    /\ up
    /\ fs.runs = 0
    /\ Cleanup
    /\ UNCHANGED <<nextId, req, job, task, sem, running, hooks, lastReq, up, crash, saveErr>>

\* The state the sweeper finds: jobs loaded from their files, each file with
\* its modification time, and some entries in the managed directories.
InitSweep ==
    /\ nextId = MaxJobs + 1
    /\ \E ids \in SUBSET (1..MaxJobs) :
          /\ job = [id \in ids |-> NewJob(id)]
          /\ store = ids
          /\ disk = [id \in ids |-> Marshal(jobData(GetStatus(NewJob(id))))]
          /\ \E times \in [ids -> {Cutoff - 1, Cutoff}], dir \in JobsDirs :
             \E files \in Contents :
             \E unreadable \in {{}} \cup {{d} : d \in ManagedDirs} :
             \E undeletable \in {{}} \cup {{e} : e \in files} :
                fs = [NoFiles EXCEPT !.jobsDir = dir, !.files = files, !.jobs = times,
                                        !.unreadable = unreadable,
                                        !.undeletable = undeletable]
    /\ req = << >>
    /\ task = << >>
    /\ sem = 0
    /\ running = 0
    /\ hooks = << >>
    /\ lastReq = NoRequest
    /\ up = TRUE
    /\ crash = NoCrash
    /\ saveErr = {}

SpecSweep == InitSweep /\ [][runCleanup]_vars

\* The sweeps of one process and of its successors: at most MaxSweeps complete
\* sweeps and MaxCrashes sweeps that the death of the process cuts short.
MaxSweeps == 2

MaxCrashes == 1

\* The ticker's case of the scheduler's loop: one more sweep, same cutoff.
tickCleanup ==
    /\ up
    /\ fs.runs \in 1..(MaxSweeps - 1)
    /\ Cleanup
    /\ UNCHANGED <<nextId, req, job, task, sem, running, hooks, lastReq, up, crash, saveErr>>

\* runCleanup cleans the directories in this order, and the jobs after them.
SweepOrder == <<"outputs", "uploads", "temp">>

\* A sweep the process dies in, and the restart of the process: the first n
\* directories are cleaned and, when all are, the old job files up to id m
\* are deleted.  A JobStore.Delete cut between its map entry and its file
\* leaves the file, and the map is lost with the process.  The new process
\* loads the Store from the job files that are left.
interruptedCleanup ==
    /\ up
    /\ fs.crashes < MaxCrashes
    /\ \E n \in 0..Len(SweepOrder), m \in 0..MaxJobs :
          /\ n < Len(SweepOrder) => m = 0
          /\ LET removed == UNION {cleanDirectory(fs.files, SweepOrder[i], Cutoff) : i \in 1..n}
                 gone == {id \in OldJobs(Cutoff) : id <= m}
                 sd == DeleteAll(<<store, disk>>, gone)
                 loaded == LoadAllJobs(sd[2])
             IN  /\ fs' = [fs EXCEPT !.files = @ \ removed,
                                     !.jobs = [id \in DOMAIN @ \ gone |-> @[id]],
                                     !.crashes = @ + 1,
                                     !.filesDeleted = Cardinality(removed),
                                     !.jobsDeleted = Cardinality(gone)]
                 /\ disk' = sd[2]
                 /\ job' = loaded
                 /\ store' = DOMAIN loaded
    /\ UNCHANGED <<nextId, req, task, sem, running, hooks, lastReq, up, crash, saveErr>>

NextResweep == runCleanup \/ tickCleanup \/ interruptedCleanup

SpecResweep == InitSweep /\ [][NextResweep]_vars

\* The scheduler as main uses it: Start once, Stop once at shutdown.  fs has
\* the scheduler's state: started, stopChan closed, the goroutine of the
\* immediate sweep ("none", "ready", "done"), the loop goroutine ("none",
\* "select", "exited"), a tick waiting in cleanupTicker.C, and the number of
\* ticker periods that have passed, at most MaxTicks.
MaxTicks == 2

UnchangedBySchedule ==
    UNCHANGED <<nextId, req, job, task, sem, running, hooks, lastReq, up, crash, saveErr>>

\* Scheduler.Start: the goroutine of the immediate sweep, the ticker, the loop.
Start ==
    /\ up
    /\ ~fs.started
    /\ fs' = [fs EXCEPT !.started = TRUE, !.immediate = "ready", !.loop = "select"]
    /\ UNCHANGED <<store, disk>>
    /\ UnchangedBySchedule

\* go s.runCleanup(): the goroutine runs when the scheduler gets to it.
immediateCleanup ==
    /\ fs.immediate = "ready"
    /\ fs' = [Swept[1] EXCEPT !.immediate = "done"]
    /\ store' = Swept[2]
    /\ disk' = Swept[3]
    /\ UnchangedBySchedule

\* A ticker period ends: the ticker puts a tick in its channel of capacity 1
\* and drops it when one is waiting there.  Ticker.Stop ends the ticks.
Tick ==
    /\ fs.loop = "select"
    /\ fs.ticks < MaxTicks
    /\ fs' = [fs EXCEPT !.tick = TRUE, !.ticks = @ + 1]
    /\ UNCHANGED <<store, disk>>
    /\ UnchangedBySchedule

\* select, case <-s.cleanupTicker.C: eligible whenever a tick is waiting,
\* whether stopChan is closed or not.
loopCleanup ==
    /\ fs.loop = "select"
    /\ fs.tick
    /\ fs' = [Swept[1] EXCEPT !.tick = FALSE]
    /\ store' = Swept[2]
    /\ disk' = Swept[3]
    /\ UnchangedBySchedule

\* select, case <-s.stopChan: eligible once the channel is closed.
loopStops ==
    /\ fs.loop = "select"
    /\ fs.closed
    /\ fs' = [fs EXCEPT !.loop = "exited"]
    /\ UNCHANGED <<store, disk>>
    /\ UnchangedBySchedule

\* Scheduler.Stop: close(s.stopChan), and return.
Stop ==
    /\ fs.started
    /\ ~fs.closed
    /\ fs' = [fs EXCEPT !.closed = TRUE]
    /\ UNCHANGED <<store, disk>>
    /\ UnchangedBySchedule

InitSched ==
    /\ InitSweep
    /\ fs.unreadable = {}
    /\ fs.undeletable = {}

NextSched ==
    \/ Start
    \/ immediateCleanup
    \/ Tick
    \/ loopCleanup
    \/ loopStops
    \/ Stop

SpecSched == InitSched /\ [][NextSched]_vars

----------------------------------------------------------------------------
\* main: shutdown

\* jobWG: one Add(1) for each job goroutine the MCP server starts, one Done
\* when it returns.  The HTTP handlers start theirs with a bare go statement.
jobWG ==
    Cardinality({id \in DOMAIN task : req[id].fe = "mcp" /\ task[id].mode # "done"})

\* The servers take submissions until the shutdown signal.
SubmitBeforeShutdown == ~fs.quit /\ Submit

\* main receives SIGINT or SIGTERM: <-quit returns, the servers are told to
\* stop and main starts waiting for jobWG.
Signal ==
    /\ up
    /\ ~fs.quit
    /\ fs' = [fs EXCEPT !.quit = TRUE]
    /\ UNCHANGED <<nextId, req, job, store, disk, task, sem, running, hooks, lastReq, up,
                   crash, saveErr>>

\* jobWG.Wait() returned and done was closed: main returns, the process
\* ends, and every goroutine still running ends with it.
ExitAllJobsFinished ==
    /\ up
    /\ fs.quit
    /\ jobWG = 0
    /\ up' = FALSE
    /\ UNCHANGED <<nextId, req, job, store, disk, task, sem, running, hooks, lastReq,
                   crash, saveErr, fs>>

\* ShutdownTimeoutSeconds > 0 and timeoutCtx is done first: main returns.
ExitShutdownTimeout ==
    /\ up
    /\ fs.quit
    /\ fs' = [fs EXCEPT !.grace = "expired"]
    /\ up' = FALSE
    /\ UNCHANGED <<nextId, req, job, store, disk, task, sem, running, hooks, lastReq,
                   crash, saveErr>>

NextShutdown ==
    \/ SubmitBeforeShutdown
    \/ JobStep
    \/ ExecutorStep
    \/ Signal
    \/ ExitAllJobsFinished
    \/ ExitShutdownTimeout

SpecShutdown == Init /\ [][NextShutdown]_vars

----------------------------------------------------------------------------
\* ffmpeg: the builders of the engine's arguments
\* Times are in hundredths of a second, the precision of the "%.2f" the
\* builders print them with.

\* fmt.Sprintf("%d", i) for 0 <= i < 100, two digits wide.
TwoDigits(n) == IF n < 10 THEN "0" \o ToString(n) ELSE ToString(n)

\* fmt.Sprintf("%.2f", x)
Sprintf2f(x) ==
    IF x < 0 THEN "-" \o ToString((0 - x) \div 100) \o "." \o TwoDigits((0 - x) % 100)
    ELSE ToString(x \div 100) \o "." \o TwoDigits(x % 100)

RECURSIVE JoinFrom(_, _, _)
\* strings.Join(parts[k..], sep)
JoinFrom(parts, sep, k) ==
    IF k > Len(parts) THEN ""
    ELSE IF k = Len(parts) THEN parts[k]
    ELSE parts[k] \o sep \o JoinFrom(parts, sep, k + 1)

BuildFilterComplex(filters) == JoinFrom(filters, ";", 1)

trimFilterEndAtZero(i, seg) ==
    IF seg.EndTime >= 0
    THEN "[" \o ToString(i) \o ":v]trim=start=" \o Sprintf2f(seg.StartTime)
             \o ":end=" \o Sprintf2f(seg.EndTime)
             \o ",setpts=PTS-STARTPTS[v" \o ToString(i) \o "]"
    ELSE "[" \o ToString(i) \o ":v]trim=start=" \o Sprintf2f(seg.StartTime)
             \o ",setpts=PTS-STARTPTS[v" \o ToString(i) \o "]"

\* MergeVideos: the trim filter of segment i (from 0) for its video.
trimFilter(i, seg) ==
    IF seg.EndTime > 0
    THEN "[" \o ToString(i) \o ":v]trim=start=" \o Sprintf2f(seg.StartTime)
             \o ":end=" \o Sprintf2f(seg.EndTime)
             \o ",setpts=PTS-STARTPTS[v" \o ToString(i) \o "]"
    ELSE "[" \o ToString(i) \o ":v]trim=start=" \o Sprintf2f(seg.StartTime)
             \o ",setpts=PTS-STARTPTS[v" \o ToString(i) \o "]"

\* MergeVideos: the trim filter of segment i for its audio.
atrimFilter(i, seg) ==
    IF seg.EndTime > 0
    THEN "[" \o ToString(i) \o ":a]atrim=start=" \o Sprintf2f(seg.StartTime)
             \o ":end=" \o Sprintf2f(seg.EndTime)
             \o ",asetpts=PTS-STARTPTS[a" \o ToString(i) \o "]"
    ELSE "[" \o ToString(i) \o ":a]atrim=start=" \o Sprintf2f(seg.StartTime)
             \o ",asetpts=PTS-STARTPTS[a" \o ToString(i) \o "]"

\* MergeVideos: the concat filter over the concatInputs.
concatFilter(segments) ==
    JoinFrom([i \in 1..Len(segments) |->
                 "[v" \o ToString(i - 1) \o "][a" \o ToString(i - 1) \o "]"], "", 1)
        \o "concat=n=" \o ToString(Len(segments)) \o ":v=1:a=1[outv][outa]"

\* MergeVideos: the error it returns, or the arguments it hands to Execute.
MergeVideosArgs(segments, outputPath) ==
    LET n == Len(segments)
        inputs == [k \in 1..(2 * n) |->
                      IF k % 2 = 1 THEN "-i" ELSE segments[k \div 2].FilePath]
        filterParts ==
            [k \in 1..(2 * n + 1) |->
                IF k = 2 * n + 1 THEN concatFilter(segments)
                ELSE IF k % 2 = 1 THEN trimFilter((k - 1) \div 2, segments[(k + 1) \div 2])
                ELSE atrimFilter((k - 2) \div 2, segments[k \div 2])]
    IN  IF n < 2
        THEN [err |-> "at least 2 video segments required for merging", args |-> << >>]
        ELSE [err |-> "",
              args |-> <<"-y">> \o inputs
                       \o <<"-filter_complex", BuildFilterComplex(filterParts)>>
                       \o <<"-map", "[outv]", "-map", "[outa]">>
                       \o <<"-c:v", "libx264", "-preset", "medium", "-crf", "23",
                             "-c:a", "aac", "-b:a", "192k", outputPath>>]

\* MergeVideos as part_004 has it, on ffmpeg-go: a segment with an end, or
\* else with a start, gets Trim and SetPts on its video and atrim and asetpts
\* on its audio; a segment with neither goes to Concat as the input's own
\* streams.  The graph is written in the engine's syntax, as ffmpeg-go hands it
\* to the engine, with the labels and the number format of trimFilter.
MergeVideosStreams(segments, outputPath) ==
    LET n == Len(segments)
        trimmed(i) == segments[i].EndTime > 0 \/ segments[i].StartTime > 0
        kept == {k \in 1..(2 * n) : trimmed((k + 1) \div 2)}
        filterOf(k) ==
            IF k % 2 = 1 THEN trimFilter((k - 1) \div 2, segments[(k + 1) \div 2])
            ELSE atrimFilter((k - 2) \div 2, segments[k \div 2])
        RECURSIVE From(_)
        From(k) == IF k > 2 * n THEN << >>
                   ELSE IF k \in kept THEN <<filterOf(k)>> \o From(k + 1)
                   ELSE From(k + 1)
        streams == [i \in 1..n |->
                       IF trimmed(i)
                       THEN "[v" \o ToString(i - 1) \o "][a" \o ToString(i - 1) \o "]"
                       ELSE "[" \o ToString(i - 1) \o ":v][" \o ToString(i - 1) \o ":a]"]
        concat == JoinFrom(streams, "", 1) \o "concat=n=" \o ToString(n)
                      \o ":v=1:a=1[outv][outa]"
        inputs == [k \in 1..(2 * n) |->
                      IF k % 2 = 1 THEN "-i" ELSE segments[k \div 2].FilePath]
    IN  IF n < 2
        THEN [err |-> "at least 2 video segments required for merging", args |-> << >>]
        ELSE [err |-> "",
              args |-> inputs
                       \o <<"-filter_complex", BuildFilterComplex(From(1) \o <<concat>>)>>
                       \o <<"-map", "[outv]", "-map", "[outa]">>
                       \o <<"-c:v", "libx264", "-preset", "medium", "-crf", "23",
                             "-c:a", "aac", "-b:a", "192k", outputPath, "-y">>]

\* An optional field (a Go pointer): nil, or a value.
Nil == [set |-> FALSE, v |-> 0]

Ptr(x) == [set |-> TRUE, v |-> x]

\* calculatePosition, for the preset positions.
calculatePosition(overlay) ==
    CASE overlay.Position = "top-left" -> <<"10", "10">>
      [] overlay.Position = "top-right" -> <<"(main_w-overlay_w-10)", "10">>
      [] overlay.Position = "bottom-left" -> <<"10", "(main_h-overlay_h-10)">>
      [] overlay.Position = "bottom-right" ->
            <<"(main_w-overlay_w-10)", "(main_h-overlay_h-10)">>
      [] overlay.Position = "center" -> <<"(main_w-overlay_w)/2", "(main_h-overlay_h)/2">>
      [] OTHER -> <<"10", "10">>

\* duration := 1.0; if overlay.FadeDuration != nil { duration = *overlay.FadeDuration }
fadeDuration(overlay) == IF overlay.FadeDuration.set THEN overlay.FadeDuration.v ELSE 100

\* fmt.Sprintf("%.6f", x) for x >= 0, x in millionths.
Sprintf6f(x) ==
    LET frac == ToString(x % 1000000)
    IN  ToString(x \div 1000000) \o "."
            \o SubSeq("000000", 1, 6 - Len(frac)) \o frac

\* zoomFrom := 1.0; if overlay.ZoomFrom != nil { zoomFrom = *overlay.ZoomFrom }
zoomFrom(overlay) == IF overlay.ZoomFrom.set THEN overlay.ZoomFrom.v ELSE 100

\* zoomTo := 1.5; if overlay.ZoomTo != nil { zoomTo = *overlay.ZoomTo }
zoomTo(overlay) == IF overlay.ZoomTo.set THEN overlay.ZoomTo.v ELSE 150

\* zoomRate := (zoomTo - zoomFrom) / duration, in millionths, rounded as %.6f
\* prints it (the overlays here zoom in: the rate is not negative).
zoomRate(overlay) ==
    LET duration == overlay.EndTime - overlay.StartTime
    IN  (2 * 1000000 * (zoomTo(overlay) - zoomFrom(overlay)) + duration) \div (2 * duration)

\* The z expression both bodies of AddImageOverlay give zoompan.
zoomExpression(overlay) ==
    "if(lte(zoom," \o Sprintf2f(zoomTo(overlay)) \o "),zoom+"
        \o Sprintf6f(zoomRate(overlay)) \o "," \o Sprintf2f(zoomTo(overlay)) \o ")"

\* duration := 1.0; if overlay.SlideDuration != nil { duration = *overlay.SlideDuration }
slideDuration(overlay) == IF overlay.SlideDuration.set THEN overlay.SlideDuration.v ELSE 100

\* calculateSlidePosition
calculateSlidePosition(overlay, baseX, baseY, duration) ==
    LET t == "(t-" \o Sprintf2f(overlay.StartTime) \o ")"
        progress == "min(" \o t \o "/" \o Sprintf2f(duration) \o ",1)"
        from(edge, sign, size) ==
            "if(lt(t," \o Sprintf2f(overlay.StartTime) \o ")," \o edge \o "," \o edge
                \o sign \o "(" \o progress \o ")*(" \o size
        dir == overlay.SlideDirection.v
    IN  CASE dir = "left" -> <<from("-overlay_w", "+", "overlay_w+") \o baseX \o "))", baseY>>
          [] dir = "right" -> <<from("main_w", "-", "main_w-") \o baseX \o "))", baseY>>
          [] dir = "top" -> <<baseX, from("-overlay_h", "+", "overlay_h+") \o baseY \o "))">>
          [] dir = "bottom" -> <<baseX, from("main_h", "-", "main_h-") \o baseY \o "))">>
          [] OTHER -> <<baseX, baseY>>

\* x, y of the overlay filter: calculatePosition, and for a slide with a
\* direction calculateSlidePosition on it.
positionOf(overlay) ==
    LET base == calculatePosition(overlay)
    IN  IF overlay.Animation = "slide" /\ overlay.SlideDirection.set
        THEN calculateSlidePosition(overlay, base[1], base[2], slideDuration(overlay))
        ELSE base

\* buildOverlayExpression
buildOverlayExpression(overlay) ==
    "overlay=" \o positionOf(overlay)[1] \o ":" \o positionOf(overlay)[2]
        \o ":enable='between(t," \o Sprintf2f(overlay.StartTime) \o ","
        \o Sprintf2f(overlay.EndTime) \o ")'"

\* buildOverlayFilter
buildOverlayFilter(overlay) ==
    LET fadeIn == "fade=t=in:st=" \o Sprintf2f(overlay.StartTime)
                      \o ":d=" \o Sprintf2f(fadeDuration(overlay))
        fadeOut == "fade=t=out:st=" \o Sprintf2f(overlay.EndTime - fadeDuration(overlay))
                      \o ":d=" \o Sprintf2f(fadeDuration(overlay))
        imageFilter ==
            CASE overlay.Animation = "fade" -> "[1:v]" \o fadeIn \o "," \o fadeOut
              [] overlay.Animation = "zoom" ->
                    "[1:v]zoompan=z='" \o zoomExpression(overlay) \o "':d=1:s=1280x720"
              [] OTHER -> "[1:v]"
    IN  BuildFilterComplex(<<imageFilter \o "[overlay]",
                             "[0:v][overlay]" \o buildOverlayExpression(overlay)>>)

\* buildOverlayFilterForIndex; index counts from 0 as in the source.
buildOverlayFilterForIndex(overlay, index) ==
    LET duration == overlay.FadeDuration.v
        fadeIn == "fade=t=in:st=" \o Sprintf2f(overlay.StartTime)
                      \o ":d=" \o Sprintf2f(duration)
        fadeOut == "fade=t=out:st=" \o Sprintf2f(overlay.EndTime - duration)
                      \o ":d=" \o Sprintf2f(duration)
        imageFilter == "[" \o ToString(index + 1) \o ":v]"
    IN  (IF overlay.Animation = "fade" /\ overlay.FadeDuration.set
         THEN imageFilter \o fadeIn \o "," \o fadeOut
         ELSE imageFilter) \o "[overlay" \o ToString(index) \o "]"

\* The second loop of buildMultipleOverlaysFilter, from overlay i (from 1
\* here) on: the overlay filters chained from currentInput.
RECURSIVE chainFilters(_, _, _)
chainFilters(overlays, i, currentInput) ==
    IF i > Len(overlays) THEN << >>
    ELSE LET outputLabel == IF i = Len(overlays) THEN "[outv]"
                            ELSE "[v" \o ToString(i - 1) \o "]"
             enableExpr == "enable='between(t," \o Sprintf2f(overlays[i].StartTime) \o ","
                               \o Sprintf2f(overlays[i].EndTime) \o ")'"
         IN  <<currentInput \o "[overlay" \o ToString(i - 1) \o "]overlay="
                   \o calculatePosition(overlays[i])[1] \o ":"
                   \o calculatePosition(overlays[i])[2] \o ":" \o enableExpr
                   \o outputLabel>>
                 \o chainFilters(overlays, i + 1, outputLabel)

\* buildMultipleOverlaysFilter
buildMultipleOverlaysFilter(overlays) ==
    BuildFilterComplex(
        [i \in 1..Len(overlays) |-> buildOverlayFilterForIndex(overlays[i], i - 1)]
            \o chainFilters(overlays, 1, "[0:v]"))

\* AddMultipleOverlays, the body that makes the arguments itself.
AddMultipleOverlaysArgs(videoPath, overlays, outputPath) ==
    IF Len(overlays) = 0 THEN [err |-> "no overlays provided", args |-> << >>]
    ELSE [err |-> "",
          args |-> <<"-y", "-i", videoPath>>
                     \o [k \in 1..(2 * Len(overlays)) |->
                            IF k % 2 = 1 THEN "-i" ELSE overlays[k \div 2].FilePath]
                     \o <<"-filter_complex", buildMultipleOverlaysFilter(overlays),
                          "-c:v", "libx264", "-preset", "medium", "-crf", "23",
                          "-c:a", "copy", outputPath>>]

\* AddImageOverlay, the body that makes the arguments itself.
AddImageOverlayArgs(videoPath, overlay, outputPath) ==
    [err |-> "",
     args |-> <<"-y", "-i", videoPath, "-i", overlay.FilePath,
                "-filter_complex", buildOverlayFilter(overlay),
                "-c:v", "libx264", "-preset", "medium", "-crf", "23", "-c:a", "copy",
                outputPath>>]

\* AddImageOverlay as the first body of part_006 has it, on ffmpeg-go:
\* format=rgba, then for fade a fade-in with st 0 and a fade-out with st
\* totalDuration - duration, both with alpha 1, and for zoom the zoompan
\* filter.  The graph is written in the engine's syntax with the labels and
\* the number format of buildOverlayFilter.
AddImageOverlayStreams(videoPath, overlay, outputPath) ==
    LET totalDuration == overlay.EndTime - overlay.StartTime
        fadeIn == "fade=t=in:st=" \o Sprintf2f(0)
                      \o ":d=" \o Sprintf2f(fadeDuration(overlay)) \o ":alpha=1"
        fadeOut == "fade=t=out:st=" \o Sprintf2f(totalDuration - fadeDuration(overlay))
                      \o ":d=" \o Sprintf2f(fadeDuration(overlay)) \o ":alpha=1"
        overlayStream ==
            CASE overlay.Animation = "fade" ->
                    "[1:v]format=rgba," \o fadeIn \o "," \o fadeOut
              [] overlay.Animation = "zoom" ->
                    "[1:v]format=rgba,zoompan=d=1:s=1280x720:z="
                        \o zoomExpression(overlay)
              [] OTHER -> "[1:v]format=rgba"
    IN  [err |-> "",
         args |-> <<"-i", videoPath, "-i", overlay.FilePath,
                    "-filter_complex",
                    BuildFilterComplex(<<overlayStream \o "[overlay]",
                        "[0:v][overlay]overlay=" \o positionOf(overlay)[1] \o ":"
                            \o positionOf(overlay)[2]
                            \o ":enable=between(t," \o Sprintf2f(overlay.StartTime) \o ","
                            \o Sprintf2f(overlay.EndTime) \o ")">>),
                    "-c:v", "libx264", "-preset", "medium", "-crf", "23", "-c:a", "copy",
                    outputPath, "-y">>]

\* The overlays of an Overlay request: visible from 0 or from 2 s, until 5 s
\* or 7 s; not animated, or fading with the default duration, 1 s or half a
\* second, or zooming from 1.0 or 0.8 to 1.5 or 2.0, or sliding from the
\* left or the top (or with no direction) for the default duration or 2 s.
ImageOverlays ==
    {o \in [FilePath : {"logo.png"}, Position : {"top-left", "center"},
            StartTime : {0, 200}, EndTime : {500, 700},
            Animation : {"fade", "none", "zoom", "slide"},
            FadeDuration : {Nil, Ptr(100), Ptr(50)},
            ZoomFrom : {Nil, Ptr(80)}, ZoomTo : {Nil, Ptr(200)},
            SlideDirection : {Nil, Ptr("left"), Ptr("top")},
            SlideDuration : {Nil, Ptr(200)}] :
        /\ o.Animation # "fade" => o.FadeDuration = Nil
        /\ o.Animation # "zoom" => o.ZoomFrom = Nil /\ o.ZoomTo = Nil
        /\ o.Animation # "slide" => o.SlideDirection = Nil /\ o.SlideDuration = Nil}

OverlayCalls ==
    {[fn |-> "AddImageOverlay", via |-> v, overlay |-> o] :
        v \in {"Execute", "ffmpeg-go"}, o \in ImageOverlays}

\* The overlay stage of a Complete request with one overlay.
MultipleOverlaysCalls ==
    {[fn |-> "AddMultipleOverlays", via |-> "Execute", overlay |-> o] :
        o \in ImageOverlays}

\* audio.StartTime != nil || audio.EndTime != nil
Trims(audio) == audio.StartTime.set \/ audio.EndTime.set

\* audio.FadeOut != nil && *audio.FadeOut > 0
FadesOut(audio) == audio.FadeOut.set /\ audio.FadeOut.v > 0

\* buildAudioFilter of part_005: the chain of the music track and the mix.
buildAudioFilter(audio) ==
    LET atrim ==
            CASE audio.StartTime.set /\ audio.EndTime.set ->
                    "atrim=start=" \o Sprintf2f(audio.StartTime.v)
                        \o ":end=" \o Sprintf2f(audio.EndTime.v)
              [] audio.StartTime.set /\ ~audio.EndTime.set ->
                    "atrim=start=" \o Sprintf2f(audio.StartTime.v)
              [] OTHER -> "atrim=end=" \o Sprintf2f(audio.EndTime.v)
        trim == IF Trims(audio) THEN atrim \o "," \o "asetpts=PTS-STARTPTS," ELSE ""
        fadeIn == IF audio.FadeIn.set /\ audio.FadeIn.v > 0
                  THEN "afade=t=in:st=0:d=" \o Sprintf2f(audio.FadeIn.v) \o ","
                  ELSE ""
        fadeOutStart ==
            CASE audio.EndTime.set /\ audio.StartTime.set ->
                    audio.EndTime.v - audio.StartTime.v - audio.FadeOut.v
              [] audio.EndTime.set /\ ~audio.StartTime.set ->
                    audio.EndTime.v - audio.FadeOut.v
              [] OTHER -> 0
        fadeOut == IF ~FadesOut(audio) THEN ""
                   ELSE IF fadeOutStart > 0
                   THEN "afade=t=out:st=" \o Sprintf2f(fadeOutStart)
                            \o ":d=" \o Sprintf2f(audio.FadeOut.v) \o ","
                   ELSE "afade=t=out:d=" \o Sprintf2f(audio.FadeOut.v) \o ","
    IN  BuildFilterComplex(
            <<"[1:a]" \o trim \o fadeIn \o fadeOut
                  \o "volume=" \o Sprintf2f(audio.Volume) \o "[music]",
              "[0:a][music]amix=inputs=2:duration=first:dropout_transition=2[aout]">>)

\* AddBackgroundMusic of part_005, which makes the arguments itself.
AddBackgroundMusicArgs(videoPath, audio, outputPath) ==
    [err |-> "",
     args |-> <<"-y", "-i", videoPath, "-i", audio.FilePath,
                "-filter_complex", buildAudioFilter(audio),
                "-map", "0:v", "-map", "[aout]",
                "-c:v", "copy", "-c:a", "aac", "-b:a", "192k", outputPath>>]

\* applyAudioFilters of audio.go, on ffmpeg-go: atrim with the bounds that are
\* given and asetpts, afade in, afade out with st only when both bounds are
\* given and the start it computes is positive, volume.  The chain is written
\* in the engine's syntax with the labels and the number format of
\* buildAudioFilter.
applyAudioFilters(audio) ==
    LET bounds ==
            (IF audio.StartTime.set
             THEN <<"start=" \o Sprintf2f(audio.StartTime.v)>> ELSE << >>)
            \o (IF audio.EndTime.set
                THEN <<"end=" \o Sprintf2f(audio.EndTime.v)>> ELSE << >>)
        trim == IF Trims(audio)
                THEN <<"atrim=" \o JoinFrom(bounds, ":", 1), "asetpts=PTS-STARTPTS">>
                ELSE << >>
        fadeIn == IF audio.FadeIn.set /\ audio.FadeIn.v > 0
                  THEN <<"afade=t=in:st=0:d=" \o Sprintf2f(audio.FadeIn.v)>>
                  ELSE << >>
        fadeOutStart == audio.EndTime.v - audio.StartTime.v - audio.FadeOut.v
        fadeOut == IF ~FadesOut(audio) THEN << >>
                   ELSE IF audio.EndTime.set /\ audio.StartTime.set /\ fadeOutStart > 0
                   THEN <<"afade=t=out:st=" \o Sprintf2f(fadeOutStart)
                              \o ":d=" \o Sprintf2f(audio.FadeOut.v)>>
                   ELSE <<"afade=t=out:d=" \o Sprintf2f(audio.FadeOut.v)>>
    IN  "[1:a]" \o JoinFrom(trim \o fadeIn \o fadeOut
                                \o <<"volume=" \o Sprintf2f(audio.Volume)>>, ",", 1)
            \o "[music]"

\* AddBackgroundMusic of audio.go.
AddBackgroundMusicStreams(videoPath, audio, outputPath) ==
    [err |-> "",
     args |-> <<"-i", videoPath, "-i", audio.FilePath,
                "-filter_complex",
                BuildFilterComplex(
                    <<applyAudioFilters(audio),
                      "[0:a][music]amix=inputs=2:duration=first:dropout_transition=2[aout]">>),
                "-map", "0:v", "-map", "[aout]",
                "-c:v", "copy", "-c:a", "aac", "-b:a", "192k", outputPath, "-y">>]

\* The audio configs of an Audio request: a trim window with its start, its
\* end, both or neither, and a fade-out that is absent, zero, or 2 s.
AudioConfigs ==
    [FilePath : {"music.mp3"}, Volume : {30},
     StartTime : {Nil, Ptr(0), Ptr(500)}, EndTime : {Nil, Ptr(100), Ptr(3000)},
     FadeIn : {Nil, Ptr(100)}, FadeOut : {Nil, Ptr(0), Ptr(200)}]

AudioCalls ==
    {[fn |-> "AddBackgroundMusic", via |-> v, audio |-> a] :
        v \in {"Execute", "ffmpeg-go"}, a \in AudioConfigs}

\* The segments of a Merge request: a file, a start, and an end that is
\* absent (0), negative or after the start.
VideoSegments ==
    [FilePath : {"a.mp4", "b.mp4"}, StartTime : {0, 150}, EndTime : {-100, 0, 500}]

RECURSIVE SeqsOf(_, _)
\* The sequences over S of length n.
SeqsOf(S, n) ==
    IF n = 0 THEN {<< >>} ELSE {Append(q, x) : q \in SeqsOf(S, n - 1), x \in S}

\* The calls of the builders: the method, which of its two bodies in the
\* source is built ("Execute": the one that makes the arguments itself,
\* "ffmpeg-go": the one on the library), and its arguments.
MergeCalls ==
    {[fn |-> "MergeVideos", via |-> v, segments |-> q] :
        v \in {"Execute", "ffmpeg-go"},
        q \in UNION {SeqsOf(VideoSegments, n) : n \in 1..MaxSegments}}

BuilderCalls == MergeCalls \cup OverlayCalls \cup MultipleOverlaysCalls \cup AudioCalls

\* One call, not made yet: lastReq.id is 0 before the call and 1 after it,
\* lastReq.result is what the builder returned.
InitBuild ==
    /\ nextId = 1
    /\ req = << >>
    /\ job = << >>
    /\ store = {}
    /\ disk = << >>
    /\ task = << >>
    /\ sem = 0
    /\ running = 0
    /\ hooks = << >>
    /\ \E c \in BuilderCalls : lastReq = [r |-> c, result |-> "", id |-> 0]
    /\ up = TRUE
    /\ crash = NoCrash
    /\ saveErr = {}
    /\ fs = NoFiles

UnchangedByBuild ==
    UNCHANGED <<nextId, req, job, store, disk, task, sem, running, hooks, up, crash,
                saveErr, fs>>

CallMergeVideos ==
    /\ lastReq.id = 0
    /\ lastReq.r.fn = "MergeVideos"
    /\ lastReq' = [lastReq EXCEPT
                      !.id = 1,
                      !.result = IF lastReq.r.via = "Execute"
                                 THEN MergeVideosArgs(lastReq.r.segments, "out.mp4")
                                 ELSE MergeVideosStreams(lastReq.r.segments, "out.mp4")]
    /\ UnchangedByBuild

CallAddImageOverlay ==
    /\ lastReq.id = 0
    /\ lastReq.r.fn = "AddImageOverlay"
    /\ lastReq' = [lastReq EXCEPT
                      !.id = 1,
                      !.result = IF lastReq.r.via = "Execute"
                                 THEN AddImageOverlayArgs("in.mp4", lastReq.r.overlay, "out.mp4")
                                 ELSE AddImageOverlayStreams("in.mp4", lastReq.r.overlay,
                                                             "out.mp4")]
    /\ UnchangedByBuild

CallAddBackgroundMusic ==
    /\ lastReq.id = 0
    /\ lastReq.r.fn = "AddBackgroundMusic"
    /\ lastReq' = [lastReq EXCEPT
                      !.id = 1,
                      !.result = IF lastReq.r.via = "Execute"
                                 THEN AddBackgroundMusicArgs("in.mp4", lastReq.r.audio,
                                                             "out.mp4")
                                 ELSE AddBackgroundMusicStreams("in.mp4", lastReq.r.audio,
                                                                "out.mp4")]
    /\ UnchangedByBuild

\* CompleteProcess, stage 2: e.AddMultipleOverlays(ctx, currentVideo,
\* req.Overlays, tempOverlay), here with one overlay.
CallAddMultipleOverlays ==
    /\ lastReq.id = 0
    /\ lastReq.r.fn = "AddMultipleOverlays"
    /\ lastReq' = [lastReq EXCEPT
                      !.id = 1,
                      !.result = AddMultipleOverlaysArgs("in.mp4", <<lastReq.r.overlay>>,
                                                         "out.mp4")]
    /\ UnchangedByBuild

NextBuild ==
    \/ CallMergeVideos
    \/ CallAddImageOverlay
    \/ CallAddMultipleOverlays
    \/ CallAddBackgroundMusic

SpecBuild == InitBuild /\ [][NextBuild]_vars

----------------------------------------------------------------------------
\* ffmpeg: CompleteProcess, stage by stage, on the request it is given

\* The requests: the segments' files (none for a request that reaches the
\* executor without segments), the overlays' images, the audio file or nil,
\* and which of the two bodies of CompleteProcess runs (they differ in how
\* the copy is made).
CompleteProcessRequests ==
    [Segments : UNION {SeqsOf({"a.mp4", "b.mp4"}, n) : n \in 0..MaxSegments},
     Overlays : {<< >>, <<"logo.png">>, <<"logo.png", "mark.png">>},
     Audio : {Nil, Ptr("music.mp3")},
     via : {"Execute", "ffmpeg-go"}]

\* outputPath, as processCompleteJob passes it.
CompleteOutputPath == "outputs/1.mp4"

\* CompleteProcess on entry: at its first stage, currentVideo not assigned,
\* no method called, no error.
Entered == [pc |-> 1, currentVideo |-> "", calls |-> << >>, err |-> ""]

InitComplete ==
    /\ nextId = 1
    /\ req = << >>
    /\ job = << >>
    /\ store = {}
    /\ disk = << >>
    /\ task = << >>
    /\ sem = 0
    /\ running = 0
    /\ hooks = << >>
    /\ \E r \in CompleteProcessRequests : lastReq = [r |-> r, result |-> Entered, id |-> 0]
    /\ up = TRUE
    /\ crash = NoCrash
    /\ saveErr = {}
    /\ fs = NoFiles

\* A call of an executor method or of the engine, as CompleteProcess makes it.
Called(fn, input, output) == [fn |-> fn, input |-> input, output |-> output]

\* if err := ...; err != nil { return fmt.Errorf("<stage>: %w", err) }
ReturnsError(res, call, msg) ==
    [res EXCEPT !.pc = 0, !.calls = Append(@, call), !.err = msg]

\* The call returned nil: currentVideo is what it wrote, the next stage is up.
NextStage(res, call) ==
    [res EXCEPT !.pc = @ + 1, !.calls = Append(@, call), !.currentVideo = call.output]

RunsMergeOnOneSegment(r) == Len(r.Segments) >= 1

\* case len(req.Segments) > 1
RunsMerge(r) == Len(r.Segments) > 1

\* Stage 1, more than one segment: MergeVideos into outputPath.merged.mp4.
StageMerge ==
    /\ lastReq.result.pc = 1
    /\ RunsMerge(lastReq.r)
    /\ LET tempMerged == CompleteOutputPath \o ".merged.mp4"
           call == Called("MergeVideos", lastReq.r.Segments, tempMerged)
       IN  \E err \in BOOLEAN :
             lastReq' = [lastReq EXCEPT !.result =
                            IF err THEN ReturnsError(@, call, "merge videos")
                            ELSE NextStage(@, call)]
    /\ UnchangedByBuild

\* Stage 1, one segment: its file is the current video.  No segment: the
\* error is returned.
StageNoMerge ==
    /\ lastReq.result.pc = 1
    /\ ~RunsMerge(lastReq.r)
    /\ lastReq' = [lastReq EXCEPT !.result =
                      IF Len(lastReq.r.Segments) = 1
                      THEN [@ EXCEPT !.pc = 2, !.currentVideo = lastReq.r.Segments[1]]
                      ELSE [@ EXCEPT !.pc = 0,
                                     !.err = "at least one video segment required"]]
    /\ UnchangedByBuild

\* Stage 2, overlays given: AddMultipleOverlays into outputPath.overlay.mp4.
StageOverlays ==
    /\ lastReq.result.pc = 2
    /\ Len(lastReq.r.Overlays) > 0
    /\ LET tempOverlay == CompleteOutputPath \o ".overlay.mp4"
           call == Called("AddMultipleOverlays", <<lastReq.result.currentVideo>>,
                          tempOverlay)
       IN  \E err \in BOOLEAN :
             lastReq' = [lastReq EXCEPT !.result =
                            IF err THEN ReturnsError(@, call, "add overlays")
                            ELSE NextStage(@, call)]
    /\ UnchangedByBuild

\* Stage 2, no overlays: nothing runs.
StageNoOverlays ==
    /\ lastReq.result.pc = 2
    /\ Len(lastReq.r.Overlays) = 0
    /\ lastReq' = [lastReq EXCEPT !.result.pc = 3]
    /\ UnchangedByBuild

\* Stage 3, audio given: AddBackgroundMusic into outputPath.
StageAudio ==
    /\ lastReq.result.pc = 3
    /\ lastReq.r.Audio.set
    /\ LET call == Called("AddBackgroundMusic", <<lastReq.result.currentVideo>>,
                          CompleteOutputPath)
       IN  \E err \in BOOLEAN :
             lastReq' = [lastReq EXCEPT !.result =
                            IF err THEN ReturnsError(@, call, "add audio")
                            ELSE NextStage(@, call)]
    /\ UnchangedByBuild

\* Stage 3, no audio: the engine copies the current video to outputPath,
\* started by Execute in one body and by the library in the other.
StageCopy ==
    /\ lastReq.result.pc = 3
    /\ ~lastReq.r.Audio.set
    /\ LET call == Called(IF lastReq.r.via = "Execute" THEN "Execute -c copy"
                          ELSE "Run c=copy",
                          <<lastReq.result.currentVideo>>, CompleteOutputPath)
       IN  \E err \in BOOLEAN :
             lastReq' = [lastReq EXCEPT !.result =
                            IF err THEN ReturnsError(@, call, "copy video")
                            ELSE NextStage(@, call)]
    /\ UnchangedByBuild

NextComplete ==
    \/ StageMerge
    \/ StageNoMerge
    \/ StageOverlays
    \/ StageNoOverlays
    \/ StageAudio
    \/ StageCopy

SpecComplete == InitComplete /\ [][NextComplete]_vars

----------------------------------------------------------------------------
\* api: the routes and the middleware of the HTTP server

\* cfg.HTTPAPIKey, the key the validator is created with.
APIKey == "secret"

ErrMissingAPIKey == "missing X-API-Key header"

ErrInvalidToken == "invalid or missing API key"

ValidateAPIKeyMissingOnly(apiKey, configured) ==
    IF apiKey = "" THEN ErrMissingAPIKey ELSE ""

\* Validator.ValidateAPIKey: "" for nil.
ValidateAPIKey(apiKey, configured) ==
    IF apiKey = "" THEN ErrMissingAPIKey
    ELSE IF apiKey # configured THEN ErrInvalidToken
    ELSE ""

StatusNoContent == 204

StatusAccepted == 202

StatusBadRequest == 400

StatusUnauthorized == 401

Use(prefix, h) == [kind |-> "use", method |-> "", path |-> prefix, h |-> h]

Route(method, path, h) == [kind |-> "route", method |-> method, path |-> path, h |-> h]

\* SetupRoutes: the middleware and the routes in the order they are
\* registered.  "/api/v1/jobs/" stands for the route with the :id parameter.
SetupRoutes ==
    << Use("", "LoggingMiddleware"),
       Use("", "CORSMiddleware"),
       Route("GET", "/api/v1/health", "HealthCheck"),
       Use("/api/v1", "AuthMiddleware"),
       Route("POST", "/api/v1/video/merge", "MergeVideos"),
       Route("POST", "/api/v1/video/overlay", "AddImageOverlay"),
       Route("POST", "/api/v1/video/audio", "AddBackgroundMusic"),
       Route("POST", "/api/v1/video/process", "ProcessComplete"),
       Route("GET", "/api/v1/jobs/", "GetJobStatus"),
       Route("POST", "/api/v1/upload", "UploadFile"),
       Route("POST", "/api/v1/upload/multiple", "UploadMultipleFiles"),
       Route("GET", "/docs", "docs"),
       Route("GET", "/docs/swagger.yaml", "swagger.yaml") >>

\* The requests: method, path, the X-API-Key header ("" when it is absent),
\* and for a path under /api/v1/jobs/ the id asked for.
HTTPRequests ==
    [method : {"GET", "POST", "OPTIONS"},
     path : {"/api/v1/health", "/api/v1/video/merge", "/api/v1/video/overlay",
             "/api/v1/video/audio", "/api/v1/video/process", "/api/v1/jobs/1",
             "/api/v1/upload", "/api/v1/upload/multiple", "/api/v1/video/combine",
             "/docs", "/docs/swagger.yaml"},
     key : {"", APIKey, "wrong"}]

\* The router: a middleware matches the paths under its prefix, a route its
\* method and path (the paths longer than its own, for the one with :id).
Matches(e, q) ==
    IF e.kind = "use"
    THEN Len(q.path) >= Len(e.path) /\ SubSeq(q.path, 1, Len(e.path)) = e.path
    ELSE /\ e.method = q.method
         /\ IF e.h = "GetJobStatus"
            THEN Len(q.path) > Len(e.path) /\ SubSeq(q.path, 1, Len(e.path)) = e.path
            ELSE e.path = q.path

\* The request goes down the stack from entry k: a middleware answers it or
\* calls c.Next(), a route's handler takes it; past the last entry the
\* router answers 404.  h is the handler reached, code the answer when none.
RECURSIVE Walk(_, _)
Walk(q, k) ==
    IF k > Len(SetupRoutes) THEN [h |-> "", code |-> StatusNotFound]
    ELSE LET e == SetupRoutes[k]
         IN  IF ~Matches(e, q) THEN Walk(q, k + 1)
             ELSE IF e.kind = "route" THEN [h |-> e.h, code |-> 0]
             ELSE IF e.h = "CORSMiddleware" /\ q.method = "OPTIONS"
                  THEN [h |-> "", code |-> StatusNoContent]
             ELSE IF e.h = "AuthMiddleware" /\ ValidateAPIKey(q.key, APIKey) # ""
                  THEN [h |-> "", code |-> StatusUnauthorized]
             ELSE Walk(q, k + 1)

Served(q, h, code, id) == [r |-> q, h |-> h, result |-> code, id |-> id]

\* The request type a submission handler parses its body into.
TypeOf(h) ==
    CASE h = "MergeVideos" -> "merge"
      [] h = "AddImageOverlay" -> "overlay"
      [] h = "AddBackgroundMusic" -> "audio"
      [] h = "ProcessComplete" -> "complete"
      [] OTHER -> ""

\* The bodies a submission handler of the HTTP server can be sent.
Bodies(type) ==
    {[fe |-> "http", type |-> type, src |-> "", webhook |-> "", n |-> n, body |-> b,
      path |-> pth] :
        n \in IF type \in {"overlay", "audio"} THEN {0} ELSE 0..MaxSegments,
        b \in BOOLEAN,
        pth \in IF type \in {"overlay", "audio"} THEN {"absent", "", "a.mp4"}
                ELSE {"a.mp4"}}

\* No handler is reached: a middleware or the router answers.
Refused ==
    /\ up
    /\ \E q \in HTTPRequests :
          /\ Walk(q, 1).h = ""
          /\ lastReq' = Served(q, "", Walk(q, 1).code, 0)
    /\ UNCHANGED <<nextId, req, job, store, disk, task, sem, running, hooks, up, crash,
                   saveErr, fs>>

\* MergeVideos, AddImageOverlay, AddBackgroundMusic, ProcessComplete.
ServeSubmission ==
    /\ up
    /\ \E q \in HTTPRequests :
          /\ TypeOf(Walk(q, 1).h) # ""
          /\ \E r \in Bodies(TypeOf(Walk(q, 1).h)) :
                IF Accepts(r)
                THEN /\ nextId <= MaxJobs
                     /\ createAndStartJob(r)
                     /\ lastReq' = Served(q, Walk(q, 1).h, StatusAccepted, nextId)
                ELSE /\ lastReq' = Served(q, Walk(q, 1).h, StatusBadRequest, 0)
                     /\ UNCHANGED <<nextId, req, job, store, disk, task, hooks>>
    /\ UNCHANGED <<sem, running, up, crash, saveErr, fs>>

ServeJobStatus ==
    /\ up
    /\ \E q \in HTTPRequests :
          /\ Walk(q, 1).h = "GetJobStatus"
          /\ lastReq' = Served(q, "GetJobStatus", GetJobStatus(store, job, 1).code, 0)
    /\ UNCHANGED <<nextId, req, job, store, disk, task, sem, running, hooks, up, crash,
                   saveErr, fs>>

\* UploadFile, UploadMultipleFiles: no file in the form, or the file is
\* saved in the uploads directory under a new name.
ServeUpload ==
    /\ up
    /\ \E q \in HTTPRequests :
          /\ Walk(q, 1).h \in {"UploadFile", "UploadMultipleFiles"}
          /\ \/ /\ lastReq' = Served(q, Walk(q, 1).h, StatusBadRequest, 0)
                /\ UNCHANGED fs
             \/ /\ Cardinality(fs.files) < MaxEntries
                /\ fs' = [fs EXCEPT !.files = @ \cup
                             {[dir |-> "uploads", name |-> ToString(Cardinality(@) + 1),
                               isDir |-> FALSE, mtime |-> Cutoff]}]
                /\ lastReq' = Served(q, Walk(q, 1).h, StatusOK, 0)
    /\ UNCHANGED <<nextId, req, job, store, disk, task, sem, running, hooks, up, crash,
                   saveErr>>

\* HealthCheck and the documentation.
ServePublic ==
    /\ up
    /\ \E q \in HTTPRequests :
          /\ Walk(q, 1).h \in {"HealthCheck", "docs", "swagger.yaml"}
          /\ lastReq' = Served(q, Walk(q, 1).h, StatusOK, 0)
    /\ UNCHANGED <<nextId, req, job, store, disk, task, sem, running, hooks, up, crash,
                   saveErr, fs>>

NextHTTP ==
    \/ Refused
    \/ ServeSubmission
    \/ ServeJobStatus
    \/ ServeUpload
    \/ ServePublic

SpecHTTP == Init /\ [][NextHTTP]_vars

----------------------------------------------------------------------------
\* downloader: DownloadVideosInOrder with its goroutines

\* The URL lists: MaxSegments videos at most.
URLLists == UNION {SeqsOf({"u", "v"}, n) : n \in 0..MaxSegments}

\* downloadVideo's outcomes: nil, or the error of http.Get, of the status
\* check, of os.Create or of io.Copy.
DownloadErrors ==
    {"", "failed to download", "bad status", "failed to create file",
     "failed to write file"}

\* The file downloadVideo writes for urls[index]: a fresh name that ends in
\* the index, holding what the URL serves.
TempFile(urls, index) ==
    [path |-> "temp/uuid_" \o ToString(index) \o ".mp4", from |-> urls[index]]

\* The call on entry: one goroutine for each URL (indexes from 1 here, from
\* 0 in the source), the results channel empty and open, downloadedFiles
\* made of empty paths, nothing in the temp directory, the caller in its
\* range loop.  order lists the indexes in the order they were received.
Downloading(urls) ==
    [g |-> [i \in 1..Len(urls) |-> "go"], results |-> << >>, closed |-> FALSE,
     downloadedFiles |-> [i \in 1..Len(urls) |-> ""], pc |-> "range",
     files |-> << >>, err |-> "", temp |-> {}, order |-> << >>]

InitDownload ==
    /\ nextId = 1
    /\ req = << >>
    /\ job = << >>
    /\ store = {}
    /\ disk = << >>
    /\ task = << >>
    /\ sem = 0
    /\ running = 0
    /\ hooks = << >>
    /\ \E urls \in URLLists :
          lastReq = [r |-> urls, id |-> 0,
                     result |-> IF Len(urls) = 0
                                THEN [Downloading(urls) EXCEPT !.pc = "returned",
                                                               !.err = "no URLs provided"]
                                ELSE Downloading(urls)]
    /\ up = TRUE
    /\ crash = NoCrash
    /\ saveErr = {}
    /\ fs = NoFiles

\* What downloadVideo leaves in the temp directory: the file when it
\* returns nil; nothing when it fails (before os.Create, in it, or in
\* io.Copy, after which it removes the file).
Downloaded(temp, urls, index, err) ==
    IF err = "" THEN temp \cup {TempFile(urls, index)} ELSE temp

\* The goroutine of urls[index]: downloadVideo, then its result is sent
\* (the channel has room for every result).
downloadVideo(index) ==
    /\ index \in DOMAIN lastReq.result.g
    /\ lastReq.result.g[index] = "go"
    /\ \E err \in DownloadErrors :
          lastReq' = [lastReq EXCEPT
             !.result.g[index] = "done",
             !.result.temp = Downloaded(@, lastReq.r, index, err),
             !.result.results =
                 Append(@, [Index |-> index,
                            FilePath |-> IF err = "" THEN TempFile(lastReq.r, index).path
                                         ELSE "",
                            Error |-> err])]
    /\ UnchangedByBuild

\* wg.Wait() returned: close(results).
closeResults ==
    /\ ~lastReq.result.closed
    /\ DOMAIN lastReq.result.g # {}
    /\ \A i \in DOMAIN lastReq.result.g : lastReq.result.g[i] = "done"
    /\ lastReq' = [lastReq EXCEPT !.result.closed = TRUE]
    /\ UnchangedByBuild

CollectedInArrivalOrder(downloadedFiles, result) ==
    [downloadedFiles EXCEPT
        ![CHOOSE i \in DOMAIN downloadedFiles :
             /\ downloadedFiles[i] = ""
             /\ \A j \in 1..(i - 1) : downloadedFiles[j] # ""] = result.FilePath]

\* downloadedFiles[result.Index] = result.FilePath
Collected(downloadedFiles, result) ==
    [downloadedFiles EXCEPT ![result.Index] = result.FilePath]

\* for _, path := range downloadedFiles { if path != "" { os.Remove(path) } }
CleanedUp(temp, downloadedFiles) ==
    {f \in temp : \A i \in DOMAIN downloadedFiles : downloadedFiles[i] # f.path}

\* One turn of the range loop: a result is received; an error cleans up the
\* files collected so far and returns, a path is stored at its index.
Collect ==
    /\ lastReq.result.pc = "range"
    /\ lastReq.result.results # << >>
    /\ LET result == Head(lastReq.result.results)
       IN  lastReq' = [lastReq EXCEPT
              !.result.results = Tail(@),
              !.result.order = Append(@, result.Index),
              !.result.temp = IF result.Error # ""
                              THEN CleanedUp(@, lastReq.result.downloadedFiles)
                              ELSE @,
              !.result.pc = IF result.Error # "" THEN "returned" ELSE @,
              !.result.err = IF result.Error # "" THEN "failed to download video"
                             ELSE @,
              !.result.downloadedFiles = IF result.Error # "" THEN @
                                         ELSE Collected(@, result)]
    /\ UnchangedByBuild

\* The channel is closed and empty: the loop ends, downloadedFiles is
\* returned.
ReturnFiles ==
    /\ lastReq.result.pc = "range"
    /\ lastReq.result.closed
    /\ lastReq.result.results = << >>
    /\ lastReq' = [lastReq EXCEPT !.result.pc = "returned",
                                  !.result.files = lastReq.result.downloadedFiles]
    /\ UnchangedByBuild

NextDownload ==
    \/ \E index \in 1..(MaxSegments + 1) : downloadVideo(index)
    \/ closeResults
    \/ Collect
    \/ ReturnFiles

SpecDownload == InitDownload /\ [][NextDownload]_vars

----------------------------------------------------------------------------
\* models: the mutexes of JobStore, JobPersistence and Job, and the
\* goroutines that take them

\* Goroutines that call into the store, the persistence and the job at once:
\* request handlers, job tasks and the sweeper.
MaxGoroutines == 3

Goroutines == 1..MaxGoroutines

\* JobStore.mu, JobPersistence.mu and Job.mu, all sync.RWMutex.
Mutexes == {"store", "persistence", "job"}

\* mu.Lock(); defer mu.Unlock() around what the method does.
WithLock(m, body) == <<<<"Lock", m>>>> \o body \o <<<<"Unlock", m>>>>

\* mu.RLock(); defer mu.RUnlock() around what the method does.
WithRLock(m, body) == <<<<"RLock", m>>>> \o body \o <<<<"RUnlock", m>>>>

\* Job.UpdateStatus, UpdateProgress, SetOutput, SetS3URL, SetError.
MutatorLocking == WithLock("job", << >>)

\* Job.GetStatus.
GetStatusLocking == WithRLock("job", << >>)

SaveJobLockingStatusFirst == WithRLock("job", WithLock("persistence", << >>))

\* JobPersistence.SaveJob: job.GetStatus() under jp.mu.
SaveJobLocking == WithLock("persistence", GetStatusLocking)

\* JobPersistence.LoadJob and LoadAllJobs: files read under jp.mu.RLock().
LoadJobLocking == WithRLock("persistence", << >>)

\* JobPersistence.DeleteJob.
DeleteJobLocking == WithLock("persistence", << >>)

\* JobStore.Add and JobStore.Update: the map entry, then SaveJob, under s.mu.
AddLocking == WithLock("store", SaveJobLocking)

UpdateLocking == WithLock("store", SaveJobLocking)

\* JobStore.Get.
GetLocking == WithRLock("store", << >>)

\* JobStore.Delete, which is also what the sweeper calls for an old job.
DeleteLocking == WithLock("store", DeleteJobLocking)

\* The operations a goroutine can start.
Locking ==
    [Add |-> AddLocking, Get |-> GetLocking, Update |-> UpdateLocking,
     Delete |-> DeleteLocking, Mutator |-> MutatorLocking,
     GetStatus |-> GetStatusLocking, LoadJob |-> LoadJobLocking,
     LoadAllJobs |-> LoadJobLocking]

\* A sync.RWMutex: w is the goroutine that holds rw.w and has announced
\* itself to the readers (0: none), readers are the goroutines counted as
\* active readers, blocked those sleeping on readerSem.
Unlocked == [w |-> 0, readers |-> {}, blocked |-> {}]

\* A goroutine: the operation it is in ("" between operations), the lock and
\* unlock calls of that operation, the next one to make, whether it sleeps
\* inside that call ("w": for rw.w, "readers": for the active readers to
\* depart, "sem": on readerSem), and the mutexes it has locked or is locking.
InNoOperation == [op |-> "", prog |-> << >>, pc |-> 1, wait |-> "", locks |-> << >>]

InitLocks ==
    /\ nextId = 1
    /\ req = << >>
    /\ job = << >>
    /\ store = {}
    /\ disk = << >>
    /\ task = << >>
    /\ sem = 0
    /\ running = 0
    /\ hooks = << >>
    /\ lastReq = NoRequest
    /\ up = TRUE
    /\ crash = NoCrash
    /\ saveErr = {}
    /\ fs = [mu |-> [m \in Mutexes |-> Unlocked], g |-> [g \in Goroutines |-> InNoOperation]]

UnchangedByLocking ==
    UNCHANGED <<nextId, req, job, store, disk, task, sem, running, hooks, lastReq, up,
                crash, saveErr>>

AllButLast(seq) == SubSeq(seq, 1, Len(seq) - 1)

\* The call a goroutine is at, <<"", "">> when it is in no operation.
Instr(g) ==
    IF fs.g[g].op = "" THEN <<"", "">> ELSE fs.g[g].prog[fs.g[g].pc]

\* The goroutine after the call at pc has returned; after the last deferred
\* unlock the operation itself returns.
Passed(st, locks) ==
    IF st.pc = Len(st.prog) THEN InNoOperation
    ELSE [st EXCEPT !.pc = @ + 1, !.wait = "", !.locks = locks]

\* A handler, a task or the sweeper calls one of the operations.
CallOperation(g) ==
    /\ fs.g[g].op = ""
    /\ \E op \in DOMAIN Locking :
          fs' = [fs EXCEPT !.g[g] = [op |-> op, prog |-> Locking[op], pc |-> 1,
                                     wait |-> "", locks |-> << >>]]
    /\ UnchangedByLocking

\* Lock is called: the goroutine queues for rw.w, which orders the writers.
LockCalled(g) ==
    /\ Instr(g)[1] = "Lock"
    /\ fs.g[g].wait = ""
    /\ fs' = [fs EXCEPT !.g[g].wait = "w", !.g[g].locks = Append(@, Instr(g)[2])]
    /\ UnchangedByLocking

\* Lock with rw.w free: it is taken and the writer is announced, which turns
\* new readers away.
LockAnnounces(g) ==
    /\ Instr(g)[1] = "Lock"
    /\ fs.g[g].wait = "w"
    /\ fs.mu[Instr(g)[2]].w = 0
    /\ fs' = [fs EXCEPT !.mu[Instr(g)[2]].w = g, !.g[g].wait = "readers"]
    /\ UnchangedByLocking

\* Lock returns: the readers that were active have departed.
LockReturns(g) ==
    /\ Instr(g)[1] = "Lock"
    /\ fs.g[g].wait = "readers"
    /\ fs.mu[Instr(g)[2]].readers = {}
    /\ fs' = [fs EXCEPT !.g[g] = Passed(@, @.locks)]
    /\ UnchangedByLocking

\* RLock: with no writer announced the goroutine is a reader at once;
\* otherwise it sleeps on readerSem.
RLockCalled(g) ==
    /\ Instr(g)[1] = "RLock"
    /\ fs.g[g].wait = ""
    /\ LET m == Instr(g)[2]
           locks == Append(fs.g[g].locks, m)
       IN  fs' = IF fs.mu[m].w = 0
                 THEN [fs EXCEPT !.mu[m].readers = @ \cup {g},
                                 !.g[g] = Passed(@, locks)]
                 ELSE [fs EXCEPT !.mu[m].blocked = @ \cup {g},
                                 !.g[g].wait = "sem",
                                 !.g[g].locks = locks]
    /\ UnchangedByLocking

\* RLock returns in a reader that the writer's Unlock has woken.
RLockReturns(g) ==
    /\ Instr(g)[1] = "RLock"
    /\ fs.g[g].wait = "sem"
    /\ g \in fs.mu[Instr(g)[2]].readers
    /\ fs' = [fs EXCEPT !.g[g] = Passed(@, @.locks)]
    /\ UnchangedByLocking

\* Unlock: the readers that slept become active readers and are woken, then
\* rw.w is released.
Unlock(g) ==
    /\ Instr(g)[1] = "Unlock"
    /\ LET m == Instr(g)[2]
       IN  fs' = [fs EXCEPT !.mu[m] = [w |-> 0, readers |-> @.blocked, blocked |-> {}],
                            !.g[g] = Passed(@, AllButLast(@.locks))]
    /\ UnchangedByLocking

RUnlock(g) ==
    /\ Instr(g)[1] = "RUnlock"
    /\ LET m == Instr(g)[2]
       IN  fs' = [fs EXCEPT !.mu[m].readers = @ \ {g},
                            !.g[g] = Passed(@, AllButLast(@.locks))]
    /\ UnchangedByLocking

\* What a goroutine inside an operation does next.
Proceeds(g) ==
    \/ LockCalled(g)
    \/ LockAnnounces(g)
    \/ LockReturns(g)
    \/ RLockCalled(g)
    \/ RLockReturns(g)
    \/ Unlock(g)
    \/ RUnlock(g)

NextLocks ==
    \E g \in Goroutines :
        \/ CallOperation(g)
        \/ LockCalled(g)
        \/ LockAnnounces(g)
        \/ LockReturns(g)
        \/ RLockCalled(g)
        \/ RLockReturns(g)
        \/ Unlock(g)
        \/ RUnlock(g)

SpecLocks == InitLocks /\ [][NextLocks]_vars

\* The runtime runs every goroutine that can run, and sync.Mutex hands rw.w
\* to a writer that has waited (starvation mode), so a goroutine whose call
\* can return again and again does return.
SpecLocksFair == SpecLocks /\ \A g \in Goroutines : SF_vars(Proceeds(g))

----------------------------------------------------------------------------
\* Properties

\* C1: at every moment the number of external-engine processes running is
\* at most the capacity the executor's semaphore was created with, whatever
\* methods the callers use.
EnginesWithinCapacity == running <= MaxConcurrentJobs

\* C2: a job's Status only moves Pending -> Processing -> Completed or
\* Pending -> Processing -> Failed; no step moves it backward or changes it
\* once it is Completed or Failed.
StatusMovesForward ==
    [][\A id \in DOMAIN job :
          job'[id].Status # job[id].Status =>
              <<job[id].Status, job'[id].Status>> \in
                  {<<JobStatusPending, JobStatusProcessing>>,
                   <<JobStatusProcessing, JobStatusCompleted>>,
                   <<JobStatusProcessing, JobStatusFailed>>}]_vars

CompletedJobSwept ==
    \E id \in DOMAIN job : job[id].Status = JobStatusCompleted /\ id \notin store

\* C3: in every reachable state of every job, the states between the
\* orchestrator's field updates included, OutputPath is non-empty iff
\* Status = Completed.
OutputPathIffCompleted ==
    \A id \in DOMAIN job :
        (job[id].OutputPath # "") <=> (job[id].Status = JobStatusCompleted)

\* C4: in every reachable state of every job, Error is non-empty iff
\* Status = Failed.
ErrorIffFailed ==
    \A id \in DOMAIN job : (job[id].Error # "") <=> (job[id].Status = JobStatusFailed)

FailedOnEmptyPath ==
    \E id \in DOMAIN job :
        job[id].Status = JobStatusFailed /\ job[id].Error = "file path is empty"

\* C5: the Progress a status query reads never decreases over a job's
\* lifetime and stays within 0..100, for every job type and on failure paths.
ProgressNonDecreasing ==
    [][\A id \in DOMAIN job :
          /\ GetStatus(job'[id]).Progress >= GetStatus(job[id]).Progress
          /\ GetStatus(job'[id]).Progress \in 0..100]_vars

CombineFailedAfterMerge ==
    \E id \in DOMAIN job :
        /\ req[id].type = "combine"
        /\ job[id].Status = JobStatusFailed
        /\ job[id].Progress = 80

\* C6: the slots held are exactly the Execute calls whose engine is still
\* running: a call that returned (nil, an engine error, or the acquire error)
\* holds none, and the count never leaves 0..capacity.
SlotsHeldAreRunningExecutes ==
    /\ sem = Cardinality({id \in DOMAIN task : task[id].ex = "run"})
    /\ sem \in 0..MaxConcurrentJobs

ExecuteFailedSlotFree ==
    /\ sem = 0
    /\ \E id \in DOMAIN task :
          task[id].mode = "done" /\ task[id].err = "ffmpeg execution failed"

\* C7: a caller waiting in Execute leaves the wait only by acquiring a slot
\* while fewer than the capacity are held, or by returning the acquire error
\* with the slots held and the engines running unchanged.
WaitEndsByAcquireOrCleanError ==
    [][\A id \in DOMAIN task :
          task[id].ex = "wait" =>
              /\ task'[id].ex = "run" =>
                    sem < MaxConcurrentJobs /\ sem' = sem + 1 /\ running' = running + 1
              /\ task'[id].ex \notin {"wait", "run"} =>
                    /\ task'[id].err = "failed to acquire ffmpeg slot"
                    /\ sem' = sem
                    /\ running' = running]_vars

CancelledWhileAllSlotsHeld ==
    /\ sem = MaxConcurrentJobs
    /\ \E id \in DOMAIN task :
          task[id].mode = "done" /\ task[id].err = "failed to acquire ffmpeg slot"

\* C8: a merge request with fewer than 2 segments, or a complete request
\* with fewer than 1, from either front-end is rejected by the handler: no
\* job id is issued and the jobs in memory and on disk are unchanged.
TooFewSegmentsRejected ==
    [][(\/ lastReq'.r.type = "merge" /\ lastReq'.r.n < 2
        \/ lastReq'.r.type = "complete" /\ lastReq'.r.n < 1) =>
          /\ lastReq'.result = "rejected"
          /\ lastReq'.id = 0
          /\ UNCHANGED <<nextId, job, store, disk, task>>]_vars

MergeOfOneRejectedWithJobStored ==
    /\ lastReq.r.type = "merge"
    /\ lastReq.r.n = 1
    /\ lastReq.r.body
    /\ lastReq.result = "rejected"
    /\ store # {}

\* C9: a request whose required video path is missing or empty is rejected
\* by the handler and creates no job.
MissingFieldRejected ==
    (lastReq.r.type \in {"overlay", "audio"} /\ lastReq.r.path \in {"absent", ""})
        => lastReq.result = "rejected" /\ lastReq.id = 0

\* C10: after a crash inside the write of a job whose file existed, the
\* restart reloads that job as the snapshot the file held before or as the
\* one being written.
CrashKeepsSnapshot ==
    [][(~up /\ up' /\ crash.id # 0 /\ crash.had) =>
          /\ crash.id \in DOMAIN job'
          /\ jobData(GetStatus(job'[crash.id])) \in
                {Unmarshal(crash.prev), Unmarshal(crash.next)}]_vars

SaveErrorDoesNotFailJob ==
    [][/\ \A id \in DOMAIN task :
             (At(id, "Update") /\ task'[id] # task[id] /\ id \in saveErr') =>
                 /\ job'[id] = job[id]
                 /\ id \in store'
                 /\ task'[id] = Advance(id)
       /\ (nextId' # nextId /\ nextId \in saveErr') =>
             /\ nextId \in store'
             /\ job'[nextId].Status = JobStatusPending
             /\ task'[nextId] = NewTask]_vars

CompletedDespiteSaveError ==
    \E id \in saveErr :
        /\ job[id].Status = JobStatusCompleted
        /\ task[id].mode = "done"
        /\ id \in store

\* C12: every job that reached Completed or Failed, from either front-end,
\* has that terminal status in its persisted record once its task is over,
\* so a restart does not reload it as Pending or Processing.
TerminalStatusPersisted ==
    \A id \in DOMAIN task :
        (task[id].mode = "done" /\ id \in DOMAIN disk) =>
            /\ job[id].Status \in {JobStatusCompleted, JobStatusFailed}
            /\ Unmarshal(disk[id]).status = job[id].Status

\* C13: saving a job and reloading it is a round trip on the persisted
\* fields: the job LoadAllJobs or LoadJob produces from the file SaveJob wrote
\* has the same id, status, progress, output path and error.
Persisted(j) == jobData(GetStatus(j))

Saved(id) == id \in DOMAIN disk /\ disk[id] = Marshal(Persisted(job[id]))

SaveReloadRoundTrip ==
    [][\A id \in DOMAIN job :
          Saved(id) =>
              /\ Persisted(LoadJob(disk, id)) = Persisted(job[id])
              /\ id \in DOMAIN job' /\ Persisted(job'[id]) = Persisted(job[id])]_vars

\* C14: on startup every job file on disk is loaded into the in-memory map,
\* and a reloaded job is never resumed: it gets no task, so no engine runs for
\* it, and its Status and Progress stay as loaded while it exists.
AllFilesReloaded == (~up /\ up') => DOMAIN job' = DOMAIN disk

NeverResumed ==
    \A id \in DOMAIN job \cap DOMAIN job' :
        id \notin DOMAIN task =>
            /\ id \notin DOMAIN task'
            /\ job'[id].Status = job[id].Status
            /\ job'[id].Progress = job[id].Progress

ReloadedNotResumed == [][AllFilesReloaded /\ NeverResumed]_vars

\* C16: for every job type, a job whose deadline expired while it waited for
\* a slot or while its engine ran has the engine killed and becomes Failed:
\* it never finishes as Completed.
ExpiredJobFails ==
    \A id \in DOMAIN task : task[id].late => job[id].Status # JobStatusCompleted

\* C17: provided every engine invocation ends, every task blocked on the
\* gate is eventually admitted or cancelled, and every submitted job
\* eventually reaches Completed or Failed.
Terminal(id) ==
    id \in DOMAIN job /\ job[id].Status \in {JobStatusCompleted, JobStatusFailed}

Blocked(id) == id \in DOMAIN task /\ task[id].ex = "wait"

EngineAhead(id) ==
    /\ task[id].mode = "main"
    /\ \E k \in task[id].i..Len(Steps(id)) : Steps(id)[k].op \in ExecutorMethods

HoldsSlot(id) == task[id].ex = "run"

SecondJobWaitsForSlot ==
    [][\A id \in DOMAIN task : \A other \in DOMAIN task \ {id} :
          (HoldsSlot(other) /\ HoldsSlot(other)' /\ EngineAhead(id)) =>
              /\ job'[id].Status \in {JobStatusPending, JobStatusProcessing, JobStatusFailed}
              /\ EngineAhead(id)' \/ task'[id].mode # "main"]_vars

\* C19: a sweep run deletes, from the store's map and from disk, every job
\* record of the configured jobs directory whose file is older than the
\* cutoff, and deletes no job whose record is not older.
SweepDeletesOldJobs ==
    [][fs'.runs > fs.runs =>
          \A id \in DOMAIN fs.jobs :
              IF Before(fs.jobs[id], Cutoff)
              THEN id \notin store' /\ id \notin DOMAIN disk'
              ELSE id \in store' /\ id \in DOMAIN disk']_vars

\* C20: a sweep run deletes from the outputs, uploads and temp directories
\* the entries older than the cutoff and leaves the entries at or after the
\* cutoff untouched; a directory that cannot be read or a file that cannot be
\* removed does not stop the sweep of the rest.
Removable(e) == e.dir \notin fs.unreadable /\ e \notin fs.undeletable

SweepDeletesOldEntries ==
    [][fs'.runs > fs.runs =>
          \A e \in fs.files :
              /\ (Before(e.mtime, Cutoff) /\ Removable(e)) => e \notin fs'.files
              /\ ~Before(e.mtime, Cutoff) => e \in fs'.files]_vars

\* C20 as the code has it: the entries deleted are the files older than the
\* cutoff; subdirectories are skipped, and every entry that is not deleted is
\* untouched.
SweepDeletesOldFiles ==
    [][fs'.runs > fs.runs =>
          /\ fs'.files \subseteq fs.files
          /\ \A e \in fs.files :
                e \notin fs'.files <=>
                    (~e.isDir /\ Before(e.mtime, Cutoff) /\ Removable(e))]_vars

SweptPastFailure ==
    /\ fs.runs = 1
    /\ fs.filesDeleted >= 1
    /\ \E e \in fs.files : ~e.isDir /\ Before(e.mtime, Cutoff) /\ ~Removable(e)
    /\ \E e \in fs.files : e.isDir /\ Before(e.mtime, Cutoff) /\ Removable(e)

\* What a complete sweep leaves of the state it starts in: the entries of the
\* managed directories, the Store's ids and the job files.
AfterSweep ==
    <<fs.files \ UNION {cleanDirectory(fs.files, d, Cutoff) : d \in ManagedDirs},
      DeleteAll(<<store, disk>>, OldJobs(Cutoff))>>

\* C21: a sweep that follows a complete sweep, with the same cutoff and no
\* write in between, leaves the files, the Store and the job files as they
\* are; and after a sweep that was cut short after any prefix of its
\* deletions, a complete sweep leaves what a complete sweep of the state
\* before would have left.
SweepIdempotentAndCrashTolerant ==
    [][/\ (fs.runs >= 1 /\ fs'.runs > fs.runs) =>
            /\ fs'.files = fs.files
            /\ fs'.jobs = fs.jobs
            /\ store' = store
            /\ disk' = disk
       /\ fs'.crashes > fs.crashes => AfterSweep' = AfterSweep]_vars

\* A sweep was cut short, and the complete sweep that followed still had
\* files and jobs to delete.
SweptAfterInterruption ==
    /\ fs.crashes = 1
    /\ fs.runs = 1
    /\ fs.filesDeleted >= 1
    /\ fs.jobsDeleted >= 1

\* C22: after Start one sweep runs at once and then one for each ticker
\* period, and once Stop has been called no further sweep begins.
SweepsOnScheduleUntilStop ==
    [][/\ fs'.runs <= 1 + fs'.ticks
       /\ fs.closed => fs'.runs = fs.runs]_vars

\* The sweeps are never more than one plus the ticker periods that passed.
SweepsOnSchedule == fs.runs <= 1 + fs.ticks

\* C23: after the shutdown signal the process exits only when every job
\* task, of the HTTP and of the MCP front-end, has finished, or when the
\* grace period has run out.
ExitWaitsForJobs ==
    [][(up /\ ~up') =>
         \/ \A id \in DOMAIN task : task[id].mode = "done"
         \/ fs'.grace = "expired"]_vars

\* The same for the tasks of the MCP front-end alone.
ExitWaitsForMCPJobs ==
    [][(up /\ ~up') =>
         \/ \A id \in DOMAIN task : req[id].fe = "mcp" => task[id].mode = "done"
         \/ fs'.grace = "expired"]_vars

\* C24: a notification is started only for a job that has a webhook URL and
\* whose Status is already Completed or Failed, at most once for each job;
\* its goroutine makes one delivery attempt for it and none again, and the
\* attempt, failed or not, leaves the job as it is.
NotifiedOnceWhenTerminal ==
    [][\A id \in DOMAIN hooks :
         /\ hooks'[id].started > hooks[id].started =>
               /\ job[id].WebhookURL # ""
               /\ job[id].Status \in {JobStatusCompleted, JobStatusFailed}
               /\ hooks[id].started = 0
         /\ hooks'[id].attempts > hooks[id].attempts =>
               /\ hooks'[id].attempts <= hooks'[id].started
               /\ job' = job
               /\ task' = task
               /\ disk' = disk
         /\ job[id].WebhookURL = "" => hooks'[id].started = 0]_vars

\* The one delivery of a completed job failed, and of a failed job.
DeliveryFailedJobCompleted ==
    \E id \in DOMAIN hooks :
        /\ hooks[id] = [started |-> 1, attempts |-> 1, failed |-> 1]
        /\ job[id].Status = JobStatusCompleted

\* C25: a combine job whose upload to the object storage failed is never
\* Completed and is Failed once its task has ended; and a combine job is
\* Completed only when its upload succeeded and its S3URL was set.
UploadDecidesCombineJob ==
    \A id \in DOMAIN task :
        req[id].type = "combine" =>
            /\ task[id].err = "Failed to upload to S3" =>
                  /\ job[id].Status # JobStatusCompleted
                  /\ task[id].mode = "done" => job[id].Status = JobStatusFailed
            /\ job[id].Status = JobStatusCompleted =>
                  /\ task[id].err = ""
                  /\ job[id].S3URL = S3URLOf(id)

\* A combine job whose upload failed has ended as Failed.
CombineFailedOnUpload ==
    \E id \in DOMAIN task :
        /\ req[id].type = "combine"
        /\ task[id].mode = "done"
        /\ task[id].err = "Failed to upload to S3"
        /\ job[id].Status = JobStatusFailed
        /\ job[id].S3URL = ""

\* Reading the arguments back, as the engine does.

\* The first position at or after k where sub occurs in s, 0 if none.
Find(s, sub, k) ==
    LET hits == {i \in k..(Len(s) - Len(sub) + 1) : SubSeq(s, i, i + Len(sub) - 1) = sub}
    IN  IF hits = {} THEN 0 ELSE CHOOSE i \in hits : \A j \in hits : i <= j

Contains(s, sub) == Find(s, sub, 1) # 0

HasPrefix(s, pre) == Len(s) >= Len(pre) /\ SubSeq(s, 1, Len(pre)) = pre

HasSuffix(s, suf) ==
    Len(s) >= Len(suf) /\ SubSeq(s, Len(s) - Len(suf) + 1, Len(s)) = suf

RECURSIVE Split(_, _, _)
\* The parts of s from position k on, between the occurrences of sep.
Split(s, sep, k) ==
    LET at == Find(s, sep, k)
    IN  IF at = 0 THEN <<SubSeq(s, k, Len(s))>>
        ELSE <<SubSeq(s, k, at - 1)>> \o Split(s, sep, at + Len(sep))

RECURSIVE ValuesOf(_, _, _)
\* The values that follow the option opt in args, from position k on.
ValuesOf(args, opt, k) ==
    IF k >= Len(args) THEN << >>
    ELSE IF args[k] = opt THEN <<args[k + 1]>> \o ValuesOf(args, opt, k + 2)
    ELSE ValuesOf(args, opt, k + 1)

\* The filters of the graph the arguments carry.
GraphOf(args) == Split(ValuesOf(args, "-filter_complex", 1)[1], ";", 1)

Merged ==
    /\ lastReq.id = 1
    /\ lastReq.r.fn = "MergeVideos"
    /\ Len(lastReq.r.segments) >= 2

\* C26: the arguments of a Merge of N >= 2 segments have the N inputs in
\* request order, and a graph of, for each segment i, one video filter
\* [i:v]trim...,setpts=PTS-STARTPTS[vi] and one audio filter
\* [i:a]atrim...,asetpts=PTS-STARTPTS[ai], followed by one concat filter with
\* n = N over [v0][a0]...[vN-1][aN-1], and no other filter.
MergeGraphPerSegmentThenConcat ==
    Merged =>
        LET segments == lastReq.r.segments
            n == Len(segments)
            args == lastReq.result.args
            graph == GraphOf(args)
            idx(i) == ToString(i - 1)
        IN  /\ lastReq.result.err = ""
            /\ ValuesOf(args, "-i", 1) = [i \in 1..n |-> segments[i].FilePath]
            /\ Len(ValuesOf(args, "-filter_complex", 1)) = 1
            /\ Len(graph) = 2 * n + 1
            /\ \A i \in 1..n :
                  /\ HasPrefix(graph[2 * i - 1], "[" \o idx(i) \o ":v]trim=")
                  /\ HasSuffix(graph[2 * i - 1], ",setpts=PTS-STARTPTS[v" \o idx(i) \o "]")
                  /\ HasPrefix(graph[2 * i], "[" \o idx(i) \o ":a]atrim=")
                  /\ HasSuffix(graph[2 * i], ",asetpts=PTS-STARTPTS[a" \o idx(i) \o "]")
                  /\ ~Contains(graph[2 * i - 1], "concat")
                  /\ ~Contains(graph[2 * i], "concat")
            /\ LET pairs == Split(graph[2 * n + 1], "concat=", 1)
               IN  /\ Len(pairs) = 2
                   /\ pairs[1] = JoinFrom([i \in 1..n |->
                                    "[v" \o idx(i) \o "][a" \o idx(i) \o "]"], "", 1)
                   /\ HasPrefix(pairs[2], "n=" \o ToString(n) \o ":")

\* The same for the arguments that MergeVideos makes itself.
MergeArgsPerSegmentThenConcat ==
    lastReq.r.via = "Execute" => MergeGraphPerSegmentThenConcat

\* The bounds a trim filter carries: what follows "trim=" up to the comma.
BoundsOf(filter) == Split(Split(filter, "trim=", 1)[2], ",", 1)[1]

Overlaid ==
    /\ lastReq.id = 1
    /\ lastReq.r.fn = "AddImageOverlay"
    /\ lastReq.r.overlay.Animation = "fade"

\* C28: for an overlay with the fade animation, fade duration d and window
\* [start, end], the graph has a fade-in that starts at start and lasts d and
\* a fade-out that starts at end - d and lasts d.
FadeAtWindowEnds ==
    Overlaid =>
        LET o == lastReq.r.overlay
            d == fadeDuration(o)
            image == GraphOf(lastReq.result.args)[1]
        IN  /\ Contains(image, "fade=t=in:st=" \o Sprintf2f(o.StartTime)
                                   \o ":d=" \o Sprintf2f(d))
            /\ Contains(image, "fade=t=out:st=" \o Sprintf2f(o.EndTime - d)
                                   \o ":d=" \o Sprintf2f(d))

\* The same for the graph that buildOverlayFilter makes.
FadeAtWindowEndsInArgs == lastReq.r.via = "Execute" => FadeAtWindowEnds

Mixed ==
    /\ lastReq.id = 1
    /\ lastReq.r.fn = "AddBackgroundMusic"
    /\ FadesOut(lastReq.r.audio)

\* The fade-outs of the chain of the music track.
FadeOutsOf(args) ==
    SelectSeq(Split(GraphOf(args)[1], ",", 1), LAMBDA f : Contains(f, "afade=t=out"))

\* C29: for an audio config with a fade-out of f > 0, the fade-out starts at
\* trimmed end - trimmed start - f when the trim window has both bounds and
\* that value is positive, and is emitted without a start otherwise.
FadeOutStartsOnTrimmedTrack ==
    Mixed =>
        LET a == lastReq.r.audio
            fades == FadeOutsOf(lastReq.result.args)
            st == a.EndTime.v - a.StartTime.v - a.FadeOut.v
        IN  /\ Len(fades) = 1
            /\ Contains(fades[1], "d=" \o Sprintf2f(a.FadeOut.v))
            /\ IF a.StartTime.set /\ a.EndTime.set /\ st > 0
               THEN Contains(fades[1], ":st=" \o Sprintf2f(st) \o ":")
               ELSE ~Contains(fades[1], "st=")

\* The same for the chain that applyAudioFilters makes.
FadeOutStartsOnTrimmedTrackInStreams ==
    lastReq.r.via = "ffmpeg-go" => FadeOutStartsOnTrimmedTrack

\* The stage a call of CompleteProcess belongs to.
StageOf(call) ==
    CASE call.fn = "MergeVideos" -> 1
      [] call.fn = "AddMultipleOverlays" -> 2
      [] OTHER -> 3

\* C30: CompleteProcess makes its calls in the order merge, overlays, then
\* audio or the copy: the merge only for more than one segment and on the
\* segments, the overlays only when overlays are given, audio when the
\* request has it and the copy otherwise; every call after the first reads
\* what the call before it wrote, the first one after no merge reads the
\* single segment's file, the last stage writes the output path, and after a
\* call that failed CompleteProcess has returned and makes no call.
StagesInOrderOnArtifacts ==
    LET r == lastReq.r
        res == lastReq.result
        calls == res.calls
        n == Len(calls)
    IN  (r \in CompleteProcessRequests) =>
        /\ \A k \in 1..n :
              /\ k > 1 => StageOf(calls[k - 1]) < StageOf(calls[k])
              /\ k > 1 => calls[k].input = <<calls[k - 1].output>>
              /\ StageOf(calls[k]) = 1 =>
                    /\ Len(r.Segments) > 1
                    /\ calls[k].input = r.Segments
              /\ (k = 1 /\ StageOf(calls[k]) > 1) =>
                    /\ Len(r.Segments) = 1
                    /\ calls[k].input = <<r.Segments[1]>>
              /\ StageOf(calls[k]) = 2 => Len(r.Overlays) > 0
              /\ (StageOf(calls[k]) = 3 /\ Len(r.Overlays) > 0) =>
                    /\ k > 1
                    /\ StageOf(calls[k - 1]) = 2
              /\ (StageOf(calls[k]) > 1 /\ Len(r.Segments) > 1) =>
                    StageOf(calls[1]) = 1
              /\ StageOf(calls[k]) = 3 =>
                    /\ calls[k].output = CompleteOutputPath
                    /\ (calls[k].fn = "AddBackgroundMusic") = r.Audio.set
              /\ StageOf(calls[k]) < 3 => calls[k].output # CompleteOutputPath
        /\ res.err # "" =>
              /\ res.pc = 0
              /\ ~(ENABLED NextComplete)
        /\ (res.err = "" /\ res.pc = 4) =>
              /\ n >= 1
              /\ StageOf(calls[n]) = 3

\* All three stages ran for a request with two segments, overlays and audio.
AllStagesRan ==
    /\ lastReq.r \in CompleteProcessRequests
    /\ Len(lastReq.r.Segments) = 2
    /\ lastReq.result.pc = 4
    /\ Len(lastReq.result.calls) = 3
    /\ lastReq.result.calls[3].fn = "AddBackgroundMusic"

\* C31: the step that answers a submission with a job id leaves the job in
\* the store, Pending with Progress 0, and a status query finds a job that
\* was submitted until the step by which the sweeper deletes it.
FoundFromResponseUntilSwept ==
    [][/\ nextId' > nextId =>
             /\ GetJobStatus(store', job', nextId).code = StatusOK
             /\ GetJobStatus(store', job', nextId).body.Status = JobStatusPending
             /\ GetJobStatus(store', job', nextId).body.Progress = 0
       /\ \A id \in DOMAIN req :
             (/\ GetJobStatus(store, job, id).code = StatusOK
              /\ GetJobStatus(store', job', id).code = StatusNotFound) => cleanOldJobs(id)
       /\ \A id \in DOMAIN req' \ DOMAIN req : id = nextId]_vars

\* A status query finds the job while its task is at work on it.
FoundWhileProcessing ==
    \E id \in DOMAIN req :
        /\ GetJobStatus(store, job, id).code = StatusOK
        /\ GetJobStatus(store, job, id).body.Status = JobStatusProcessing
        /\ task[id].mode = "main"

\* The request asks for the health check or the documentation.
Public(q) == q.path \in {"/api/v1/health", "/docs", "/docs/swagger.yaml"}

\* The step serves the request q and leaves the jobs, the store, the job
\* files and the directories as they were.
NothingChanged ==
    UNCHANGED <<nextId, req, job, store, disk, task, sem, running, hooks, up, crash,
                saveErr, fs>>

\* C32, as stated: a request other than the health check and the
\* documentation reaches a handler only with the configured key, and with
\* another key or none it is answered 401 and changes nothing.
KeyOrUnauthorized ==
    [][LET q == lastReq'.r
       IN  ~Public(q) =>
             /\ lastReq'.h # "" => q.key = APIKey
             /\ q.key # APIKey =>
                   /\ lastReq'.result = StatusUnauthorized
                   /\ NothingChanged]_vars

\* C32: a request other than the health check and the documentation reaches
\* a handler only with the configured key; with another key or none it is
\* answered 401, or 204 when its method is OPTIONS, and changes nothing.
KeyOrUnauthorizedButPreflight ==
    [][LET q == lastReq'.r
       IN  ~Public(q) =>
             /\ lastReq'.h # "" => q.key = APIKey
             /\ q.key # APIKey =>
                   /\ lastReq'.result =
                         IF q.method = "OPTIONS" THEN StatusNoContent
                         ELSE StatusUnauthorized
                   /\ NothingChanged]_vars

\* A submission with a wrong key was answered 401 after one with the
\* configured key had created a job.
RefusedWrongKey ==
    /\ "h" \in DOMAIN lastReq
    /\ lastReq.r.method = "POST"
    /\ lastReq.r.path = "/api/v1/video/merge"
    /\ lastReq.r.key = "wrong"
    /\ lastReq.result = StatusUnauthorized
    /\ nextId = 2

\* C33: a job that is no longer in the store (the sweeper deleted it) is not
\* put back by an Update of its task: no map entry and no file for it
\* appear again.
DeletedStaysDeleted ==
    [][\A id \in DOMAIN job :
          (id \notin store /\ id \notin DOMAIN disk) =>
              (id \notin store' /\ id \notin DOMAIN disk')]_vars

\* C34: when DownloadVideosInOrder returns without an error, whatever the
\* order in which the results arrived, the list it returns is as long as
\* urls and its i-th path is the path of the file downloaded from urls[i].
DownloadsInOrder ==
    LET res == lastReq.result
    IN  (res.pc = "returned" /\ res.err = "") =>
            /\ Len(res.files) = Len(lastReq.r)
            /\ \A i \in 1..Len(lastReq.r) :
                  [path |-> res.files[i], from |-> lastReq.r[i]] \in res.temp

\* Two different URLs, the second one's result received first.
ReturnedInOrderReceivedOutOfOrder ==
    /\ lastReq.r = <<"u", "v">>
    /\ lastReq.result.pc = "returned"
    /\ lastReq.result.err = ""
    /\ lastReq.result.order = <<2, 1>>

\* C38: when DownloadVideosInOrder has returned an error and all of its
\* goroutines have finished, no file downloaded by the call is left in the
\* temp directory.
NothingLeftAfterError ==
    LET res == lastReq.result
    IN  (/\ res.pc = "returned"
         /\ res.err # ""
         /\ \A i \in DOMAIN res.g : res.g[i] = "done") => res.temp = {}

Zoomed ==
    /\ lastReq.id = 1
    /\ lastReq.r.fn = "AddImageOverlay"
    /\ lastReq.r.overlay.Animation = "zoom"

\* The graph the body `via` of AddImageOverlay builds for overlay o.
OverlayGraph(via, o) ==
    GraphOf(IF via = "Execute" THEN AddImageOverlayArgs("in.mp4", o, "out.mp4").args
            ELSE AddImageOverlayStreams("in.mp4", o, "out.mp4").args)

\* C35: the scale expression of a zoom overlay starts at zoomFrom when the
\* overlay appears, ramps linearly to zoomTo across the window and stays at
\* zoomTo.  The engine computes the scale from the image's filter chain
\* alone, so two zoom overlays that are given the same chain must have the
\* same zoomFrom, the same zoomTo and windows of the same length.
ZoomRampFromZoomFrom ==
    Zoomed =>
        LET o == lastReq.r.overlay
            via == lastReq.r.via
        IN  \A o2 \in ImageOverlays :
                (/\ o2.Animation = "zoom"
                 /\ OverlayGraph(via, o2)[1] = GraphOf(lastReq.result.args)[1]) =>
                    /\ zoomFrom(o2) = zoomFrom(o)
                    /\ zoomTo(o2) = zoomTo(o)
                    /\ o2.EndTime - o2.StartTime = o.EndTime - o.StartTime

\* The z expression is the one of the source: the limit and the value past
\* it are zoomTo, the step is the rate.
ZoomExpressionInGraph ==
    Zoomed => Contains(GraphOf(lastReq.result.args)[1],
                       "if(lte(zoom," \o Sprintf2f(zoomTo(lastReq.r.overlay)) \o "),zoom+")

RECURSIVE DropLeadingLabels(_)
DropLeadingLabels(s) ==
    IF Len(s) > 0 /\ SubSeq(s, 1, 1) = "["
    THEN DropLeadingLabels(SubSeq(s, Find(s, "]", 1) + 1, Len(s)))
    ELSE s

\* A filter of a graph without the labels of its inputs and of its output.
Unlabelled(filter) ==
    LET body == DropLeadingLabels(filter)
        opens == {i \in 1..Len(body) : SubSeq(body, i, i) = "["}
    IN  IF Len(body) > 0 /\ SubSeq(body, Len(body), Len(body)) = "]"
        THEN SubSeq(body, 1, (CHOOSE i \in opens : \A j \in opens : j <= i) - 1)
        ELSE body

OverlaidInPipeline ==
    /\ lastReq.id = 1
    /\ lastReq.r.fn = "AddMultipleOverlays"

\* C39: for one overlay, AddMultipleOverlays builds the graph AddImageOverlay
\* builds for it: the same filters on the image and the same overlay filter
\* (position, window, animation), whatever the labels.
SameGraphAsStandalone ==
    OverlaidInPipeline =>
        LET multi == GraphOf(lastReq.result.args)
            single == OverlayGraph("Execute", lastReq.r.overlay)
        IN  /\ Len(multi) = Len(single)
            /\ \A k \in 1..Len(single) : Unlabelled(multi[k]) = Unlabelled(single[k])

\* The same for the overlays that are not animated, that fade with a
\* duration given, or that slide without a direction.
SameGraphAsStandaloneUnanimated ==
    (/\ OverlaidInPipeline
     /\ \/ lastReq.r.overlay.Animation = "none"
        \/ lastReq.r.overlay.Animation = "fade" /\ lastReq.r.overlay.FadeDuration.set
        \/ lastReq.r.overlay.Animation = "slide" /\ ~lastReq.r.overlay.SlideDirection.set)
        => SameGraphAsStandalone

\* C36: a snapshot that GetStatus returns, whenever it is taken while the
\* job's task runs, has Progress = 100 exactly when it has Status completed.
SnapshotNeverTorn ==
    \A id \in DOMAIN job :
        (GetStatus(job[id]).Progress = 100)
            <=> (GetStatus(job[id]).Status = JobStatusCompleted)

\* One direction of it does hold: a snapshot with Status completed has
\* Progress = 100.
CompletedSnapshotAtHundred ==
    \A id \in DOMAIN job :
        (GetStatus(job[id]).Status = JobStatusCompleted)
            => (GetStatus(job[id]).Progress = 100)

\* The place of a mutex in the order store, persistence, job.
Rank(m) == CASE m = "store" -> 1 [] m = "persistence" -> 2 [] m = "job" -> 3

\* Every goroutine takes its mutexes in the order store, persistence, job.
LocksInOrder ==
    \A g \in Goroutines :
        \A i, j \in 1..Len(fs.g[g].locks) :
            i < j => Rank(fs.g[g].locks[i]) < Rank(fs.g[g].locks[j])

\* C37: whatever the interleaving of Add, Get, Update, Delete, the job's
\* mutators and GetStatus, the loads and the sweeper's deletes, a goroutine
\* that holds a mutex takes only mutexes later in the order store,
\* persistence, job, and every operation that was started returns.
LocksInOrderAndOperationsReturn ==
    /\ []LocksInOrder
    /\ \A g \in Goroutines : (fs.g[g].op # "") ~> (fs.g[g].op = "")

\* An Add or Update holds all three mutexes while a mutator sleeps in Lock on
\* the job's mutex and a third goroutine queues for the store's.
AllThreeHeldOthersWaiting ==
    \E g, h, k \in Goroutines :
        /\ fs.g[g].locks = <<"store", "persistence", "job">>
        /\ g \in fs.mu["job"].readers
        /\ fs.g[h].op = "Mutator"
        /\ fs.g[h].wait = "readers"
        /\ fs.g[k].wait = "w"
        /\ fs.g[k].locks = <<"store">>

====
